---- MODULE Spec2Model ----
(***************************************************************************)
(* A model of the ARM7 32-bit instruction core (decode table, execution    *)
(* engine) and of the timer subsystem of linkmauve/NDS-Emulator.           *)
(*                                                                         *)
(* TLC's integers are 32-bit signed, so a u32 of the program is kept as a  *)
(* pair <<hi, lo>> of 16-bit halves and every u32 operation works on the   *)
(* halves (modulo 2^32, as the wrapping_* calls and `as u32` casts do).    *)
(***************************************************************************)
EXTENDS Integers, Naturals, Sequences, FiniteSets, TLC

VARIABLES
    lut_opcode,     \* gen_lut: the loop variable `opcode`
    lut,            \* gen_lut: the local array `lut`
    lut_panicked,   \* gen_lut: the final assert_eq! failed
    cycle,          \* HW.scheduler.cycle
    event_queue,    \* HW.scheduler: pending events, in insertion order
    timers,         \* HW.timers[is_nds9][index]
    interrupts,     \* HW.interrupts[is_nds9].request
    io_writes,      \* register writes so far
    fired,          \* events fired so far
    cascade_obs,    \* observer: the cascade clocks each count-up timer has seen
    hw_panic,       \* the panic that ended the process, or "none"
    arm7,           \* ARM7: regs, instr_buffer, next_access_type
    bus_mem,        \* the memory behind the ARM7's bus
    bus_log,        \* the accesses and internal cycles of the last operation
    arm7_panic,     \* the panic that ended the ARM7's run, or "none"
    overflow_checks,\* the build panics on integer overflow (else it wraps)
    arm7_last,      \* observer: what the last operation of the ARM7 was
    arm7_steps,     \* instructions stepped so far
    hw9,            \* HW: main_mem, shared_wram, wramcnt, cp15
    arm9_last,      \* observer: the last two accesses of the ARM9 bus
    arm9_panic,     \* the panic that ended an access of the ARM9 bus, or "none"
    arm9_ops        \* accesses of the ARM9 bus so far

lutvars == <<lut_opcode, lut, lut_panicked>>
hwvars == <<cycle, event_queue, timers, interrupts, io_writes, fired, cascade_obs,
           hw_panic>>

armvars == <<arm7, bus_mem, bus_log, arm7_panic, overflow_checks, arm7_last, arm7_steps>>

busvars == <<hw9, arm9_last, arm9_panic, arm9_ops>>

vars == <<lutvars, hwvars, armvars, busvars>>

(***************************************************************************)
(* u32 values as halves.                                                   *)
(***************************************************************************)
H16 == 65536

\* The u32 with the value x, for 0 <= x < 2^31.
U32(x) == <<x \div H16, x % H16>>

\* (w >> lo) & (2^n - 1) for lo + n <= 32 and n <= 24.
bits(w, lo, n) ==
    IF lo >= 16 THEN (w[1] \div 2^(lo - 16)) % 2^n
    ELSE IF lo + n <= 16 THEN (w[2] \div 2^lo) % 2^n
    ELSE (w[2] \div 2^lo) + (w[1] % 2^(lo + n - 16)) * 2^(16 - lo)

bit(w, n) == bits(w, n, 1) = 1

\* a & b on non-negative integers.
RECURSIVE BitAnd(_, _)
BitAnd(a, b) ==
    IF a = 0 \/ b = 0 THEN 0
    ELSE (a % 2) * (b % 2) + 2 * BitAnd(a \div 2, b \div 2)

\* An outcome of a computation that may panic.
Value(v) == [panic |-> "none", value |-> v]
Panic(msg) == [panic |-> msg, value |-> 0]

(***************************************************************************)
(* u32 arithmetic on halves.                                               *)
(***************************************************************************)
\* a.wrapping_add(b)
add32(a, b) ==
    LET lo == a[2] + b[2]
        hi == a[1] + b[1] + (lo \div H16) IN
    <<hi % H16, lo % H16>>

\* !a
not32(a) == <<(H16 - 1) - a[1], (H16 - 1) - a[2]>>

\* a.wrapping_sub(b)
sub32(a, b) == add32(add32(a, not32(b)), <<0, 1>>)

and32(a, b) == <<BitAnd(a[1], b[1]), BitAnd(a[2], b[2])>>
or32(a, b) == <<a[1] + b[1] - BitAnd(a[1], b[1]), a[2] + b[2] - BitAnd(a[2], b[2])>>
xor32(a, b) ==
    <<a[1] + b[1] - 2 * BitAnd(a[1], b[1]), a[2] + b[2] - 2 * BitAnd(a[2], b[2])>>

\* The u32 whose bit k is f[k], for f a function on 0..31 to {0, 1}.
RECURSIVE sum_bits(_, _, _)
sum_bits(f, lo, n) ==
    IF n = 0 THEN 0 ELSE f[lo] + 2 * sum_bits(f, lo + 1, n - 1)
from_bits(f) == <<sum_bits(f, 16, 16), sum_bits(f, 0, 16)>>

\* a << n, a >> n (logical), a >> n (arithmetic) and a.rotate_right(n).
shl32(a, n) == from_bits([k \in 0..31 |-> IF k >= n THEN bits(a, k - n, 1) ELSE 0])
shr32(a, n) == from_bits([k \in 0..31 |-> IF k + n <= 31 THEN bits(a, k + n, 1) ELSE 0])
asr32(a, n) ==
    from_bits([k \in 0..31 |-> IF k + n <= 31 THEN bits(a, k + n, 1) ELSE bits(a, 31, 1)])
rotate_right(a, n) == from_bits([k \in 0..31 |-> bits(a, (k + n) % 32, 1)])

\* The low n bits of a as a signed number, in 32 bits (`as i8 as u32`,
\* `as i16 as u32`).
sign_extend(a, n) == from_bits([k \in 0..31 |-> bits(a, IF k < n THEN k ELSE n - 1, 1)])

\* a.wrapping_mul(b): the product modulo 2^32, summed over the bytes of
\* the factors so that no partial sum leaves the range of the integers.
mul32(a, b) ==
    LET p(i, j) == bits(a, 8 * i, 8) * bits(b, 8 * j, 8)
        t0 == p(0, 0)
        t1 == p(0, 1) + p(1, 0) + t0 \div 256
        t2 == p(0, 2) + p(1, 1) + p(2, 0) + t1 \div 256
        t3 == p(0, 3) + p(1, 2) + p(2, 1) + p(3, 0) + t2 \div 256
    IN  <<(t2 % 256) + 256 * (t3 % 256), (t0 % 256) + 256 * (t1 % 256)>>

\* a < b as unsigned numbers.
lt32(a, b) == a[1] < b[1] \/ (a[1] = b[1] /\ a[2] < b[2])

\* The u32 of a small number times four, and set / clear of one bit.
set_bit32(a, n, on) ==
    from_bits([k \in 0..31 |-> IF k = n THEN (IF on THEN 1 ELSE 0) ELSE bits(a, k, 1)])

(***************************************************************************)
(* The decode table: gen_lut (arm.rs 621-700).                             *)
(***************************************************************************)
LutSize == 4096

\* A table entry: the handler function and its const generic arguments.
Handler(fn, args) == [fn |-> fn, args |-> args]

undefined_instr_arm == Handler("undefined_instr_arm", <<>>)

\* compose_instr_handler!(fn, skeleton, b1, ..., bn): the handler fn::<..>
\* whose i-th const argument is bit b_i of the skeleton.
compose_instr_handler(fn, skel, bitlist) ==
    Handler(fn, [i \in 1..Len(bitlist) |-> (skel \div 2^(bitlist[i])) % 2 = 1])

skeleton(opcode) == (BitAnd(opcode, \hFF0) * 2^16) + (BitAnd(opcode, \hF) * 2^4)

\* The final assert_eq! of the else branch.
lut_else_assert(skel) ==
    BitAnd(skel, \b1110000000000000000000010000) = \b0110000000000000000000010000

is_branch_and_exchange(skel) ==
    BitAnd(skel, \b1111111100000000000011110000) = \b0001001000000000000000010000
\* The multiply rule with bit 22 left out of its mask.
is_mul_mula_without_bit22(skel) ==
    BitAnd(skel, \b1111100000000000000011110000) = \b0000000000000000000010010000
is_mul_mula(skel) ==
    BitAnd(skel, \b1111110000000000000011110000) = \b0000000000000000000010010000
is_mul_long(skel) ==
    BitAnd(skel, \b1111100000000000000011110000) = \b0000100000000000000010010000
is_single_data_swap(skel) ==
    BitAnd(skel, \b1111100000000000111111110000) = \b0001000000000000000010010000
is_halfword_and_signed_data_transfer(skel) ==
    BitAnd(skel, \b1110000000000000000010010000) = \b0000000000000000000010010000
is_psr_transfer(skel) ==
    BitAnd(skel, \b1101100100000000000000000000) = \b0001000000000000000000000000
is_data_proc(skel) ==
    BitAnd(skel, \b1100000000000000000000000000) = \b0000000000000000000000000000
is_single_data_transfer(skel) ==
    BitAnd(skel, \b1100000000000000000000000000) = \b0100000000000000000000000000
is_block_data_transfer(skel) ==
    BitAnd(skel, \b1110000000000000000000000000) = \b1000000000000000000000000000
is_branch_branch_with_link(skel) ==
    BitAnd(skel, \b1110000000000000000000000000) = \b1010000000000000000000000000
is_arm_software_interrupt(skel) ==
    BitAnd(skel, \b1111000000000000000000000000) = \b1111000000000000000000000000
is_coprocessor_1(skel) ==
    BitAnd(skel, \b1110000000000000000000000000) = \b1100000000000000000000000000
is_coprocessor_2(skel) ==
    BitAnd(skel, \b1111000000000000000000000000) = \b1110000000000000000000000000

\* The if / else-if chain of the loop body: the value stored in lut[opcode].
gen_lut_entry(opcode) ==
    LET skel == skeleton(opcode) IN
    IF is_branch_and_exchange(skel) THEN Handler("branch_and_exchange", <<>>)
    ELSE IF is_mul_mula(skel) THEN compose_instr_handler("mul_mula", skel, <<21, 20>>)
    ELSE IF is_mul_long(skel) THEN compose_instr_handler("mul_long", skel, <<22, 21, 20>>)
    ELSE IF is_single_data_swap(skel) THEN compose_instr_handler("single_data_swap", skel, <<22>>)
    ELSE IF is_halfword_and_signed_data_transfer(skel)
        THEN compose_instr_handler("halfword_and_signed_data_transfer", skel,
                                   <<24, 23, 22, 21, 20, 6, 5>>)
    ELSE IF is_psr_transfer(skel) THEN compose_instr_handler("psr_transfer", skel, <<25, 22, 21>>)
    ELSE IF is_data_proc(skel) THEN compose_instr_handler("data_proc", skel, <<25, 20>>)
    ELSE IF is_single_data_transfer(skel)
        THEN compose_instr_handler("single_data_transfer", skel, <<25, 24, 23, 22, 21, 20>>)
    ELSE IF is_block_data_transfer(skel)
        THEN compose_instr_handler("block_data_transfer", skel, <<24, 23, 22, 21, 20>>)
    ELSE IF is_branch_branch_with_link(skel)
        THEN compose_instr_handler("branch_branch_with_link", skel, <<24>>)
    ELSE IF is_arm_software_interrupt(skel) THEN Handler("arm_software_interrupt", <<>>)
    ELSE IF is_coprocessor_1(skel) THEN Handler("coprocessor", <<>>)
    ELSE IF is_coprocessor_2(skel) THEN Handler("coprocessor", <<>>)
    ELSE undefined_instr_arm

\* The loop body reaches the final else branch.
lut_falls_through(skel) ==
    ~ (\/ is_branch_and_exchange(skel) \/ is_mul_mula(skel) \/ is_mul_long(skel)
       \/ is_single_data_swap(skel) \/ is_halfword_and_signed_data_transfer(skel)
       \/ is_psr_transfer(skel) \/ is_data_proc(skel) \/ is_single_data_transfer(skel)
       \/ is_block_data_transfer(skel) \/ is_branch_branch_with_link(skel)
       \/ is_arm_software_interrupt(skel) \/ is_coprocessor_1(skel)
       \/ is_coprocessor_2(skel))

(***************************************************************************)
(* The assertions each handler makes on the bits of the instruction that   *)
(* the dispatch key fixes (bits 27..20 and 7..4) and on its const          *)
(* arguments.  `args` are the const generics in declaration order.         *)
(***************************************************************************)
\* psr_transfer<I, P, L> (arm.rs 166-171, 193, 199, 202).
psr_transfer_asserts(args, instr) ==
    LET I == args[1]  L == args[3] IN
    /\ bits(instr, 26, 2) = 0
    /\ bits(instr, 23, 2) = 2
    /\ bits(instr, 20, 1) = 0
    /\ IF L THEN (~I => bits(instr, 4, 8) = 0)
            ELSE I = FALSE /\ bits(instr, 0, 12) = 0

\* mul_mula<A, S> (arm.rs 208, 215).
mul_mula_asserts(args, instr) ==
    /\ bits(instr, 22, 6) = 0
    /\ bits(instr, 4, 4) = 9

\* mul_long<U, A, S> (arm.rs 236, 243).
mul_long_asserts(args, instr) ==
    /\ bits(instr, 23, 5) = 1
    /\ bits(instr, 4, 4) = 9

\* single_data_transfer<I, P, U, B, W, L> (arm.rs 283, 298, 354-355).
single_data_transfer_asserts(args, instr) ==
    LET I == args[1]  P == args[2] IN
    /\ bits(instr, 26, 2) = 1
    /\ I => bits(instr, 4, 1) = 0
    /\ ~P => bits(instr, 21, 1) = 0

\* halfword_and_signed_data_transfer<P, U, I, W, L, S, H>
\* (arm.rs 378, 388, 391-392, 414-421, 428, 446).
halfword_and_signed_data_transfer_asserts(args, instr) ==
    LET P == args[1]  L == args[5]  S == args[6]  H == args[7]
        opcode == (IF S THEN 2 ELSE 0) + (IF H THEN 1 ELSE 0) IN
    /\ bits(instr, 25, 3) = 0
    /\ bits(instr, 7, 1) = 1
    /\ bits(instr, 4, 1) = 1
    /\ IF L THEN opcode \in 1..3 ELSE opcode = 1
    /\ ~P => bits(instr, 24, 1) = 0

\* block_data_transfer<P, U, S, W, L> (arm.rs 466).
block_data_transfer_asserts(args, instr) ==
    bits(instr, 25, 3) = 4

\* single_data_swap<B> (arm.rs 572, 574, 577).
single_data_swap_asserts(args, instr) ==
    /\ bits(instr, 23, 5) = 2
    /\ bits(instr, 20, 2) = 0
    /\ bits(instr, 4, 8) = 9

\* arm_software_interrupt (arm.rs 599).
arm_software_interrupt_asserts(args, instr) ==
    bits(instr, 24, 4) = 15

\* data_proc<I, S> (arm.rs 93-95, 129-136): a register-specified shift has
\* bit 7 clear, and without S the opcode is not one of TST/TEQ/CMP/CMN.
data_proc_asserts(args, instr) ==
    LET I == args[1]  S == args[2]
        opcode == bits(instr, 21, 4) IN
    /\ (~I /\ bits(instr, 4, 1) = 1) => bits(instr, 7, 1) = 0
    /\ ~S => BitAnd(opcode, 12) # 8

handler_asserts(h, instr) ==
    CASE h.fn = "psr_transfer" -> psr_transfer_asserts(h.args, instr)
      [] h.fn = "mul_mula" -> mul_mula_asserts(h.args, instr)
      [] h.fn = "mul_long" -> mul_long_asserts(h.args, instr)
      [] h.fn = "single_data_transfer" -> single_data_transfer_asserts(h.args, instr)
      [] h.fn = "halfword_and_signed_data_transfer" ->
            halfword_and_signed_data_transfer_asserts(h.args, instr)
      [] h.fn = "block_data_transfer" -> block_data_transfer_asserts(h.args, instr)
      [] h.fn = "single_data_swap" -> single_data_swap_asserts(h.args, instr)
      [] h.fn = "arm_software_interrupt" -> arm_software_interrupt_asserts(h.args, instr)
      [] h.fn = "data_proc" -> data_proc_asserts(h.args, instr)
      [] OTHER -> TRUE

\* The table gen_lut returns, as the engine holds it in arm_lut.
arm_lut == [opcode \in 0..(LutSize - 1) |-> gen_lut_entry(opcode)]


(***************************************************************************)
(* The register file of the ARM7 (section 3 of the specification): r0-r15, *)
(* the CPSR, and per privileged mode an SPSR and banked r13/r14 (r8-r14    *)
(* for FIQ).                                                               *)
(***************************************************************************)
\* Mode: CPSR bits 4..0.
Mode ==
    [USR |-> 16, FIQ |-> 17, IRQ |-> 18, SVC |-> 19, ABT |-> 23, UND |-> 27,
     SYS |-> 31]

BankedModes == {Mode.FIQ, Mode.IRQ, Mode.SVC, Mode.ABT, Mode.UND}

\* regs.get_mode(): CPSR bits 4..0.
get_mode(regs) == regs.cpsr[2] % 32

\* The bank that holds register i in `mode`; 0 is the bank user mode sees.
bank_of(mode, i) ==
    IF mode = Mode.FIQ /\ i \in 8..14 THEN Mode.FIQ
    ELSE IF mode \in {Mode.IRQ, Mode.SVC, Mode.ABT, Mode.UND} /\ i \in 13..14 THEN mode
    ELSE 0

\* regs.get_reg_i(i)
get_reg_i(regs, i) ==
    IF i = 15 THEN regs.pc
    ELSE IF bank_of(get_mode(regs), i) = 0 THEN regs.r[i]
    ELSE regs.banked[bank_of(get_mode(regs), i)][i]

\* regs.set_reg_i(i, value)
set_reg_i(regs, i, value) ==
    IF i = 15 THEN [regs EXCEPT !.pc = value]
    ELSE IF bank_of(get_mode(regs), i) = 0 THEN [regs EXCEPT !.r[i] = value]
    ELSE [regs EXCEPT !.banked[bank_of(get_mode(regs), i)][i] = value]

\* regs.set_mode(mode): the mode field of the CPSR.
set_mode(regs, mode) ==
    [regs EXCEPT !.cpsr = <<@[1], (@[2] - (@[2] % 32)) + mode>>]

\* regs.get_reg(Reg::SPSR): user and system mode have none and see the CPSR.
get_spsr(regs) ==
    IF get_mode(regs) \in BankedModes THEN regs.spsr[get_mode(regs)] ELSE regs.cpsr

\* regs.change_mode(mode): exception entry saves the CPSR in the SPSR of
\* the new mode.
change_mode(regs, mode) ==
    set_mode([regs EXCEPT !.spsr[mode] = regs.cpsr], mode)

\* regs.restore_cpsr()
restore_cpsr(regs) == [regs EXCEPT !.cpsr = get_spsr(regs)]

\* The flags of the CPSR: N, Z, C, V are bits 31..28, I is bit 7, T is bit 5.
get_n(regs) == bit(regs.cpsr, 31)
get_z(regs) == bit(regs.cpsr, 30)
get_c(regs) == bit(regs.cpsr, 29)
get_v(regs) == bit(regs.cpsr, 28)
get_t(regs) == bit(regs.cpsr, 5)
set_n(regs, on) == [regs EXCEPT !.cpsr = set_bit32(@, 31, on)]
set_z(regs, on) == [regs EXCEPT !.cpsr = set_bit32(@, 30, on)]
set_c(regs, on) == [regs EXCEPT !.cpsr = set_bit32(@, 29, on)]
set_v(regs, on) == [regs EXCEPT !.cpsr = set_bit32(@, 28, on)]
set_i(regs, on) == [regs EXCEPT !.cpsr = set_bit32(@, 7, on)]
set_t(regs, on) == [regs EXCEPT !.cpsr = set_bit32(@, 5, on)]

\* ARM7::should_exec(condition): the condition field against the flags.
should_exec(regs, condition) ==
    CASE condition = 0 -> get_z(regs)
      [] condition = 1 -> ~get_z(regs)
      [] condition = 2 -> get_c(regs)
      [] condition = 3 -> ~get_c(regs)
      [] condition = 4 -> get_n(regs)
      [] condition = 5 -> ~get_n(regs)
      [] condition = 6 -> get_v(regs)
      [] condition = 7 -> ~get_v(regs)
      [] condition = 8 -> get_c(regs) /\ ~get_z(regs)
      [] condition = 9 -> ~get_c(regs) \/ get_z(regs)
      [] condition = 10 -> get_n(regs) = get_v(regs)
      [] condition = 11 -> get_n(regs) # get_v(regs)
      [] condition = 12 -> ~get_z(regs) /\ get_n(regs) = get_v(regs)
      [] condition = 13 -> get_z(regs) \/ get_n(regs) # get_v(regs)
      [] condition = 14 -> TRUE
      [] OTHER -> FALSE

(***************************************************************************)
(* The processor and its bus.  A machine m is [regs, instr_buffer,         *)
(* next_access_type, mem, log, panic]: mem maps word addresses to words    *)
(* (a word never written reads as DefaultWord), log is the sequence of bus *)
(* accesses and internal cycles issued, each access with the access type   *)
(* it was issued with.  A slot of the instruction buffer holds the word    *)
(* and, for the claims, the address it was fetched from.                   *)
(***************************************************************************)
DefaultWord == <<0, 0>>

align4(addr) == <<addr[1], addr[2] - (addr[2] % 4)>>
align2(addr) == <<addr[1], addr[2] - (addr[2] % 2)>>

mem_word(mem, addr) ==
    IF align4(addr) \in DOMAIN mem THEN mem[align4(addr)] ELSE DefaultWord

\* The byte, halfword or word a read of `size` bits at addr returns.
mem_value(mem, size, addr) ==
    LET w == mem_word(mem, addr) IN
    CASE size = 8 -> <<0, bits(w, 8 * (addr[2] % 4), 8)>>
      [] size = 16 -> <<0, bits(w, 8 * (align2(addr)[2] % 4), 16)>>
      [] OTHER -> w

\* The word at addr with the byte lane of addr replaced by the low byte of
\* value.
with_byte(w, addr, value) ==
    LET lane == addr[2] % 4 IN
    from_bits([k \in 0..31 |->
        IF k \div 8 = lane THEN bits(value, k % 8, 1) ELSE bits(w, k, 1)])

\* An entry of the log; `by` tells the fetches of instruction_prefetch
\* ("prefetch") and of a buffer refill ("refill") from the transfers of
\* the handlers ("data").
Access(op, by, size, access_type, addr) ==
    [op |-> op, by |-> by, size |-> size, access |-> access_type, addr |-> addr]

panicked(m) == m.panic # "none"
panic(m, msg) == IF panicked(m) THEN m ELSE [m EXCEPT !.panic = msg]

\* The word at addr with the halfword lane of addr replaced by the low
\* halfword of value.
with_half(w, addr, value) ==
    LET lane == (addr[2] % 4) \div 2 IN
    from_bits([k \in 0..31 |->
        IF k \div 16 = lane THEN bits(value, k % 16, 1) ELSE bits(w, k, 1)])

\* ARM7::read::<T>(hw, access_type, addr): the machine after the access.
fetch(m, by, size, access_type, addr) ==
    [m EXCEPT !.log = Append(@, Access("read", by, size, access_type, addr))]
read(m, size, access_type, addr) == fetch(m, "data", size, access_type, addr)

\* ARM7::write::<T>(hw, access_type, addr, value)
write(m, size, access_type, addr, value) ==
    [m EXCEPT !.log = Append(@, Access("write", "data", size, access_type, addr)),
              !.mem = (align4(addr) :>
                        (CASE size = 8 -> with_byte(mem_word(m.mem, addr), addr, value)
                           [] size = 16 -> with_half(mem_word(m.mem, addr), addr, value)
                           [] OTHER -> value)) @@ @]

\* ARM7::internal(): one internal cycle.
internal(m) == [m EXCEPT !.log = Append(@, Access("internal", "data", 0, "I", <<0, 0>>))]

Slot(word, from) == [word |-> word, from |-> from]

\* ARM7::instruction_prefetch::<u32>(hw, access_type): the word at pc goes
\* into the second slot of the buffer.
instruction_prefetch(m, access_type) ==
    [fetch(m, "prefetch", 32, access_type, m.regs.pc) EXCEPT
        !.instr_buffer[2] = Slot(mem_value(m.mem, 32, m.regs.pc), m.regs.pc)]

\* ARM7::fill_arm_instr_buffer (arm.rs 10-16)
fill_arm_instr_buffer(m) ==
    LET pc0 == align4(m.regs.pc)
        m1 == [fetch(m, "refill", 32, "S", align4(pc0)) EXCEPT
                  !.instr_buffer[1] = Slot(mem_value(m.mem, 32, align4(pc0)), align4(pc0))]
        pc1 == add32(pc0, <<0, 4>>)
    IN  [fetch(m1, "refill", 32, "S", align4(pc1)) EXCEPT
            !.regs.pc = pc1,
            !.instr_buffer[2] = Slot(mem_value(m.mem, 32, align4(pc1)), align4(pc1))]

\* ARM7::fill_thumb_instr_buffer: the 16-bit counterpart.
fill_thumb_instr_buffer(m) ==
    LET pc0 == align2(m.regs.pc)
        m1 == [fetch(m, "refill", 16, "S", pc0) EXCEPT
                  !.instr_buffer[1] = Slot(mem_value(m.mem, 16, pc0), pc0)]
        pc1 == add32(pc0, <<0, 2>>)
    IN  [fetch(m1, "refill", 16, "S", align2(pc1)) EXCEPT
            !.regs.pc = pc1,
            !.instr_buffer[2] = Slot(mem_value(m.mem, 16, align2(pc1)), align2(pc1))]

(***************************************************************************)
(* The handlers (arm.rs 43-618).                                           *)
(***************************************************************************)
\* branch_and_exchange that clears bit 0 of an odd target and stays in
\* 32-bit state.
branch_and_exchange_staying_arm(m, instr) ==
    LET m1 == instruction_prefetch(m, "N")
        target == get_reg_i(m1.regs, bits(instr, 0, 4)) IN
    IF target[2] % 2 # 0
    THEN fill_arm_instr_buffer([m1 EXCEPT !.regs.pc = <<target[1], target[2] - 1>>])
    ELSE fill_arm_instr_buffer([m1 EXCEPT !.regs.pc = target])

\* ARM7::branch_and_exchange (arm.rs 43-53)
branch_and_exchange(m, instr) ==
    LET m1 == instruction_prefetch(m, "N")
        target == get_reg_i(m1.regs, bits(instr, 0, 4)) IN
    IF target[2] % 2 # 0
    THEN fill_thumb_instr_buffer(
            [m1 EXCEPT !.regs = set_t([m1.regs EXCEPT !.pc = <<target[1], target[2] - 1>>],
                                      TRUE)])
    ELSE fill_arm_instr_buffer([m1 EXCEPT !.regs.pc = target])

\* ARM7::branch_branch_with_link::<L> (arm.rs 56-70)
branch_branch_with_link(args, m, instr) ==
    LET L == args[1]
        offset24 == <<bits(instr, 16, 8), bits(instr, 0, 16)>>
        offset == IF bits(offset24, 23, 1) = 1 THEN or32(<<\hFF00, 0>>, offset24)
                                               ELSE offset24
        m1 == instruction_prefetch(m, "N")
        m2 == IF L THEN [m1 EXCEPT !.regs = set_reg_i(@, 14, sub32(m1.regs.pc, <<0, 4>>))]
                   ELSE m1
    IN  fill_arm_instr_buffer([m2 EXCEPT !.regs.pc = add32(@, shl32(offset, 2))])

\* ARM7::arm_software_interrupt (arm.rs 598-606)
arm_software_interrupt(m, instr) ==
    IF bits(instr, 24, 4) # 15 THEN panic(m, "assert_eq!(instr >> 24 & 0xF, 0b1111)")
    ELSE
    LET m1 == instruction_prefetch(m, "N")
        r1 == change_mode(m1.regs, Mode.SVC)
        r2 == set_reg_i(r1, 14, sub32(r1.pc, <<0, 4>>))
        r3 == set_i(r2, TRUE)
    IN  fill_arm_instr_buffer([m1 EXCEPT !.regs = [r3 EXCEPT !.pc = <<0, 8>>]])

\* coprocessor as an instruction that does nothing.
coprocessor_as_no_op(m, instr) == instruction_prefetch(m, "S")

\* ARM7::coprocessor (arm.rs 611-613)
coprocessor(m, instr) == panic(m, "Coprocessor not implemented!")

\* ARM7::undefined_instr_arm (arm.rs 616-618)
undefined_instr(m, instr) == panic(m, "ARM.17: Undefined Instruction not implemented!")

(***************************************************************************)
(* The ALU: the barrel shifter and the adder, as the ARM7TDMI defines them.*)
(* A result is [m, value]: the machine after the operation and the value.  *)
(***************************************************************************)
Result(m, value) == [m |-> m, value |-> value]

\* The value and the carry-out of shifting `operand`; carry-out -1 leaves
\* the carry flag as it is.  An immediate amount of 0 encodes LSR #32,
\* ASR #32 and RRX.
shifter(shift_type, operand, amount, immediate, carry_in) ==
    LET top == bits(operand, 31, 1) IN
    IF amount = 0 /\ (~immediate \/ shift_type = 0) THEN <<operand, -1>>
    ELSE CASE shift_type = 0 ->
                IF amount < 32 THEN <<shl32(operand, amount), bits(operand, 32 - amount, 1)>>
                ELSE IF amount = 32 THEN <<<<0, 0>>, bits(operand, 0, 1)>>
                ELSE <<<<0, 0>>, 0>>
           [] shift_type = 1 ->
                IF amount = 0 \/ amount = 32 THEN <<<<0, 0>>, top>>
                ELSE IF amount < 32
                THEN <<shr32(operand, amount), bits(operand, amount - 1, 1)>>
                ELSE <<<<0, 0>>, 0>>
           [] shift_type = 2 ->
                IF amount = 0 \/ amount >= 32
                THEN <<IF top = 1 THEN <<H16 - 1, H16 - 1>> ELSE <<0, 0>>, top>>
                ELSE <<asr32(operand, amount), bits(operand, amount - 1, 1)>>
           [] OTHER ->
                IF amount = 0
                THEN <<set_bit32(shr32(operand, 1), 31, carry_in), bits(operand, 0, 1)>>
                ELSE LET r == rotate_right(operand, amount % 32) IN <<r, bits(r, 31, 1)>>

\* The machine after a shift whose value and carry-out are s.
shifted(m, change_status, s) ==
    Result(IF change_status /\ s[2] # -1 THEN [m EXCEPT !.regs = set_c(@, s[2] = 1)]
                                         ELSE m,
           s[1])

\* ARM7::shift(shift_type, operand, shift, immediate, change_status): a
\* register-specified amount costs an internal cycle.
shift(m, shift_type, operand, amount, immediate, change_status) ==
    shifted(IF immediate THEN m ELSE internal(m), change_status,
            shifter(shift_type, operand, amount, immediate, get_c(m.regs)))

\* a + b + carry_in: <<sum, carry out, signed overflow>>.
add_with_carry(a, b, carry_in) ==
    LET lo == a[2] + b[2] + carry_in
        hi == a[1] + b[1] + (lo \div H16)
        sum == <<hi % H16, lo % H16>> IN
    <<sum, hi >= H16,
      bits(a, 31, 1) = bits(b, 31, 1) /\ bits(sum, 31, 1) # bits(a, 31, 1)>>

\* The machine and value after an addition that sets C and V on request.
arith(m, r, change_status) ==
    Result(IF change_status
           THEN [m EXCEPT !.regs = set_v(set_c(@, r[2]), r[3])] ELSE m,
           r[1])

\* ARM7::add, adc, sub, sbc
add(m, op1, op2, change_status) == arith(m, add_with_carry(op1, op2, 0), change_status)
adc(m, op1, op2, change_status) ==
    arith(m, add_with_carry(op1, op2, IF get_c(m.regs) THEN 1 ELSE 0), change_status)
sub(m, op1, op2, change_status) ==
    arith(m, add_with_carry(op1, not32(op2), 1), change_status)
sbc(m, op1, op2, change_status) ==
    arith(m, add_with_carry(op1, not32(op2), IF get_c(m.regs) THEN 1 ELSE 0),
          change_status)

\* data_proc: operand 2 (arm.rs 84-112), on the machine after the
\* temporary increment of pc.
data_proc_op2(I, shift_by_reg, change_status, logical, m, instr) ==
    IF I
    THEN IF logical /\ bits(instr, 8, 4) # 0
         THEN shift(m, 3, <<0, bits(instr, 0, 8)>>, bits(instr, 8, 4) * 2, TRUE,
                    change_status)
         ELSE Result(m, rotate_right(<<0, bits(instr, 0, 8)>>, bits(instr, 8, 4) * 2))
    ELSE shift(m, bits(instr, 5, 2), get_reg_i(m.regs, bits(instr, 0, 4)),
               IF shift_by_reg THEN get_reg_i(m.regs, bits(instr, 8, 4))[2] % 256
                               ELSE bits(instr, 7, 5),
               ~shift_by_reg, change_status /\ logical)

\* data_proc: the operation (arm.rs 113-128) on operand 2 and the machine
\* o2 = [m, value] that computing it left.
data_proc_alu(opcode, change_status, op1_reg, o2) ==
    LET op1 == get_reg_i(o2.m.regs, op1_reg) IN
    CASE opcode \in {0, 8} -> Result(o2.m, and32(op1, o2.value))
      [] opcode \in {1, 9} -> Result(o2.m, xor32(op1, o2.value))
      [] opcode \in {2, 10} -> sub(o2.m, op1, o2.value, change_status)
      [] opcode = 3 -> sub(o2.m, o2.value, op1, change_status)
      [] opcode \in {4, 11} -> add(o2.m, op1, o2.value, change_status)
      [] opcode = 5 -> adc(o2.m, op1, o2.value, change_status)
      [] opcode = 6 -> sbc(o2.m, op1, o2.value, change_status)
      [] opcode = 7 -> sbc(o2.m, o2.value, op1, change_status)
      [] opcode = 12 -> Result(o2.m, or32(op1, o2.value))
      [] opcode = 13 -> Result(o2.m, o2.value)
      [] opcode = 14 -> Result(o2.m, and32(op1, not32(o2.value)))
      [] OTHER -> Result(o2.m, not32(o2.value))

\* The status update that treats a destination of r15 as any other.
data_proc_status_flags_only(change_status, special_change_status, writes, res) ==
    Result(IF change_status \/ special_change_status
           THEN [res.m EXCEPT !.regs = set_n(set_z(@, res.value = <<0, 0>>),
                                             bits(res.value, 31, 1) # 0)]
           ELSE IF ~writes
           THEN panic(res.m, "assert_eq!(opcode & 0xC != 0x8, true)")
           ELSE res.m,
           res.value)

\* data_proc: the status update (arm.rs 129-136) after the operation left
\* res = [m, value].
data_proc_status(change_status, special_change_status, writes, res) ==
    Result(IF change_status
           THEN [res.m EXCEPT !.regs = set_n(set_z(@, res.value = <<0, 0>>),
                                             bits(res.value, 31, 1) # 0)]
           ELSE IF special_change_status
           THEN [res.m EXCEPT !.regs.cpsr = get_spsr(res.m.regs)]
           ELSE IF ~writes
           THEN panic(res.m, "assert_eq!(opcode & 0xC != 0x8, true)")
           ELSE res.m,
           res.value)

\* The write of the result that leaves pc as the shift-amount fetch
\* advanced it.
data_proc_write_without_dec(writes, dest_reg, shift_by_reg, res) ==
    IF panicked(res.m) THEN res.m
    ELSE IF writes /\ dest_reg = 15
    THEN IF get_t(res.m.regs)
         THEN fill_thumb_instr_buffer(
                 [instruction_prefetch(res.m, "N") EXCEPT !.regs.pc = res.value])
         ELSE fill_arm_instr_buffer(
                 [instruction_prefetch(res.m, "N") EXCEPT !.regs.pc = res.value])
    ELSE instruction_prefetch(
            [res.m EXCEPT !.regs =
                IF writes THEN set_reg_i(@, dest_reg, res.value) ELSE @],
            "S")

\* data_proc: the write of the result and the prefetch (arm.rs 137-157).
data_proc_write(writes, dest_reg, shift_by_reg, res) ==
    IF panicked(res.m) THEN res.m
    ELSE IF writes /\ dest_reg = 15
    THEN IF get_t(res.m.regs)
         THEN fill_thumb_instr_buffer(
                 [instruction_prefetch(res.m, "N") EXCEPT !.regs.pc = res.value])
         ELSE fill_arm_instr_buffer(
                 [instruction_prefetch(res.m, "N") EXCEPT !.regs.pc = res.value])
    ELSE instruction_prefetch(
            [res.m EXCEPT !.regs =
                LET r == IF writes THEN set_reg_i(@, dest_reg, res.value) ELSE @ IN
                \* Dec after temp inc
                IF shift_by_reg THEN [r EXCEPT !.pc = sub32(@, <<0, 4>>)] ELSE r],
            "S")

\* ARM7::data_proc::<I, S> (arm.rs 73-158)
data_proc(args, m, instr) ==
    LET I == args[1]
        S == args[2]
        opcode == bits(instr, 21, 4)
        dest_reg == bits(instr, 12, 4)
        special_change_status == dest_reg = 15 /\ S
        change_status == S /\ ~special_change_status
        logical == opcode < 5 \/ opcode > 7
        shift_by_reg == ~I /\ bits(instr, 4, 1) # 0
    IN
    IF shift_by_reg /\ bits(instr, 7, 1) # 0
    THEN panic(m, "assert_eq!((instr >> 7) & 0x1, 0)")
    ELSE data_proc_write(
            BitAnd(opcode, 12) # 8, dest_reg, shift_by_reg,
            data_proc_status(
                change_status, special_change_status, BitAnd(opcode, 12) # 8,
                data_proc_alu(
                    opcode, change_status, bits(instr, 16, 4),
                    data_proc_op2(I, shift_by_reg, change_status, logical,
                                  \* Temp inc
                                  IF shift_by_reg
                                  THEN [m EXCEPT !.regs.pc = add32(@, <<0, 4>>)]
                                  ELSE m,
                                  instr))))

\* The load arm of the closure `exec` of single_data_transfer (arm.rs
\* 308-327), on the machine m after the read.
single_data_transfer_load(m, value, src_dest_reg) ==
    IF src_dest_reg = 15
    THEN fill_arm_instr_buffer([internal(m) EXCEPT !.regs = set_reg_i(@, 15, value)])
    ELSE [internal(m) EXCEPT !.regs = set_reg_i(@, src_dest_reg, value)]

\* The closure `exec` of single_data_transfer (arm.rs 307-338): the
\* machine after the transfer at addr and whether write-back is still due.
single_data_transfer_exec(m, addr, B, L, base_reg, src_dest_reg, write_back) ==
    IF L
    THEN [m |-> IF B
                THEN single_data_transfer_load(
                        read(m, 8, IF src_dest_reg = 15 THEN "N" ELSE "S", addr),
                        mem_value(m.mem, 8, addr), src_dest_reg)
                ELSE single_data_transfer_load(
                        read(m, 32, IF src_dest_reg = 15 THEN "N" ELSE "S", align4(addr)),
                        rotate_right(mem_value(m.mem, 32, align4(addr)),
                                     (addr[2] % 4) * 8),
                        src_dest_reg),
          write_back |-> write_back /\ src_dest_reg # base_reg]
    ELSE [m |-> IF B
                THEN write(m, 8, "N", addr,
                           IF src_dest_reg = 15 THEN add32(get_reg_i(m.regs, 15), <<0, 4>>)
                                                ELSE get_reg_i(m.regs, src_dest_reg))
                ELSE write(m, 32, "N", align4(addr),
                           IF src_dest_reg = 15 THEN add32(get_reg_i(m.regs, 15), <<0, 4>>)
                                                ELSE get_reg_i(m.regs, src_dest_reg)),
          write_back |-> write_back]

\* The write-back after the transfer e = [m, write_back] (arm.rs 346-348,
\* 357-359).
single_data_transfer_write_back(e, base_reg, offset_applied) ==
    IF e.write_back THEN [e.m EXCEPT !.regs = set_reg_i(@, base_reg, offset_applied)]
                    ELSE e.m

\* single_data_transfer once the offset o = [m, value] is known (arm.rs
\* 339-361).
single_data_transfer_at(P, U, B, W, L, base, base_reg, src_dest_reg, instr, o) ==
    IF ~P /\ bits(instr, 21, 1) # 0
    THEN panic(o.m, "assert_eq!(force_non_privileged_access, false)")
    ELSE single_data_transfer_write_back(
            single_data_transfer_exec(
                o.m,
                IF P THEN (IF U THEN add32(base, o.value) ELSE sub32(base, o.value))
                     ELSE base,
                B, L, base_reg, src_dest_reg, W \/ ~P),
            base_reg,
            IF U THEN add32(base, o.value) ELSE sub32(base, o.value))

\* single_data_transfer: the offset (arm.rs 293-305), on the machine after
\* the prefetch.
single_data_transfer_offset(I, m, instr) ==
    IF I
    THEN shift(m, bits(instr, 5, 2), get_reg_i(m.regs, bits(instr, 0, 4)),
               bits(instr, 7, 5), TRUE, FALSE)
    ELSE Result(m, <<0, bits(instr, 0, 12)>>)

\* ARM7::single_data_transfer::<I, P, U, B, W, L> (arm.rs 271-362)
single_data_transfer(args, m, instr) ==
    LET I == args[1]  P == args[2]  U == args[3]
        B == args[4]  W == args[5]  L == args[6]
    IN
    IF bits(instr, 26, 2) # 1 THEN panic(m, "assert_eq!(instr >> 26 & 0b11, 0b01)")
    ELSE IF I /\ bits(instr, 4, 1) # 0
    THEN panic(instruction_prefetch(m, "N"), "assert_eq!(instr >> 4 & 0x1, 0)")
    ELSE IF I /\ bits(instr, 0, 4) = 15
    THEN panic(instruction_prefetch(m, "N"), "assert_ne!(offset_reg, 15)")
    ELSE single_data_transfer_at(
            P, U, B, W, L, get_reg_i(m.regs, bits(instr, 16, 4)), bits(instr, 16, 4),
            bits(instr, 12, 4), instr,
            single_data_transfer_offset(I, instruction_prefetch(m, "N"), instr))

\* The value a halfword or signed load reads at addr (arm.rs 411-421), as
\* [m, value].
halfword_and_signed_data_transfer_read(m, opcode, access_type, addr) ==
    CASE opcode = 1 ->
            Result(read(m, 16, access_type, align2(addr)),
                   rotate_right(mem_value(m.mem, 16, align2(addr)), (addr[2] % 2) * 8))
      [] opcode = 2 \/ (opcode = 3 /\ addr[2] % 2 = 1) ->
            Result(read(m, 8, access_type, addr),
                   sign_extend(mem_value(m.mem, 8, addr), 8))
      [] opcode = 3 ->
            Result(read(m, 16, access_type, addr),
                   sign_extend(mem_value(m.mem, 16, addr), 16))
      [] OTHER -> Result(panic(m, "unreachable!()"), <<0, 0>>)

\* The closure `exec` that leaves write-back due when the destination of
\* a load is the base.
halfword_and_signed_data_transfer_exec_keeping_write_back(m, addr, opcode, L, base_reg, src_dest_reg, write_back) ==
    IF L
    THEN LET v == halfword_and_signed_data_transfer_read(
                      m, opcode, IF src_dest_reg = 15 THEN "N" ELSE "S", addr) IN
         [m |-> IF panicked(v.m) THEN v.m
                ELSE IF src_dest_reg = 15
                THEN fill_arm_instr_buffer(
                        [internal(v.m) EXCEPT !.regs = set_reg_i(@, 15, v.value)])
                ELSE [internal(v.m) EXCEPT !.regs = set_reg_i(@, src_dest_reg, v.value)],
          write_back |-> write_back]
    ELSE [m |-> IF opcode # 1 THEN panic(m, "assert_eq!(opcode, 1)")
                ELSE write(m, 16, "N", align2(addr), get_reg_i(m.regs, src_dest_reg)),
          write_back |-> write_back]

\* The closure `exec` of halfword_and_signed_data_transfer (arm.rs
\* 402-433): the machine after the transfer at addr and whether write-back
\* is still due.
halfword_and_signed_data_transfer_exec(m, addr, opcode, L, base_reg, src_dest_reg, write_back) ==
    IF L
    THEN LET v == halfword_and_signed_data_transfer_read(
                      m, opcode, IF src_dest_reg = 15 THEN "N" ELSE "S", addr) IN
         [m |-> IF panicked(v.m) THEN v.m
                ELSE IF src_dest_reg = 15
                THEN fill_arm_instr_buffer(
                        [internal(v.m) EXCEPT !.regs = set_reg_i(@, 15, v.value)])
                ELSE [internal(v.m) EXCEPT !.regs = set_reg_i(@, src_dest_reg, v.value)],
          write_back |-> write_back /\ src_dest_reg # base_reg]
    ELSE [m |-> IF opcode # 1 THEN panic(m, "assert_eq!(opcode, 1)")
                ELSE write(m, 16, "N", align2(addr), get_reg_i(m.regs, src_dest_reg)),
          write_back |-> write_back]

\* halfword_and_signed_data_transfer after the transfer e = [m, write_back]
\* (arm.rs 439-450).
halfword_and_signed_data_transfer_write_back(e, P, instr, base_reg, offset_applied) ==
    IF panicked(e.m) THEN e.m
    ELSE IF ~P /\ bits(instr, 24, 1) # 0
    THEN panic(e.m, "assert_eq!(instr >> 24 & 0x1 != 0, false)")
    ELSE IF e.write_back THEN [e.m EXCEPT !.regs = set_reg_i(@, base_reg, offset_applied)]
    ELSE e.m

\* ARM7::halfword_and_signed_data_transfer::<P, U, I, W, L, S, H>
\* (arm.rs 365-452)
halfword_and_signed_data_transfer(args, m, instr) ==
    LET P == args[1]  U == args[2]  I == args[3]  W == args[4]
        L == args[5]  S == args[6]  H == args[7]
        base_reg == bits(instr, 16, 4)
        base == get_reg_i(m.regs, base_reg)
        offset == IF I THEN <<0, bits(instr, 8, 4) * 16 + bits(instr, 0, 4)>>
                  ELSE get_reg_i(m.regs, bits(instr, 0, 4))
        offset_applied == IF U THEN add32(base, offset) ELSE sub32(base, offset)
    IN
    IF bits(instr, 25, 3) # 0 THEN panic(m, "assert_eq!(instr >> 25 & 0x7, 0b000)")
    ELSE IF bits(instr, 7, 1) # 1 THEN panic(m, "assert_eq!(instr >> 7 & 0x1, 1)")
    ELSE IF bits(instr, 4, 1) # 1 THEN panic(m, "assert_eq!(instr >> 4 & 0x1, 1)")
    ELSE IF ~I /\ bits(instr, 8, 4) # 0
    THEN panic(instruction_prefetch(m, "N"), "assert_eq!(offset_hi, 0)")
    ELSE halfword_and_signed_data_transfer_write_back(
            halfword_and_signed_data_transfer_exec(
                instruction_prefetch(m, "N"), IF P THEN offset_applied ELSE base,
                (IF S THEN 2 ELSE 0) + (IF H THEN 1 ELSE 0), L, base_reg,
                bits(instr, 12, 4), W \/ ~P),
            P, instr, base_reg, offset_applied)

\* The swap reading the word at the aligned address as it is.
single_data_swap_transfer_unrotated(m, B, base, src) ==
    IF B
    THEN Result(write(read(m, 8, "N", base), 8, "S", base, src),
                mem_value(m.mem, 8, base))
    ELSE Result(write(read(m, 32, "N", align4(base)), 32, "S", align4(base), src),
                mem_value(m.mem, 32, align4(base)))

\* single_data_swap: the read and the write (arm.rs 582-592), as
\* [m, value] with the value read.
single_data_swap_transfer(m, B, base, src) ==
    IF B
    THEN Result(write(read(m, 8, "N", base), 8, "S", base, src),
                mem_value(m.mem, 8, base))
    ELSE Result(write(read(m, 32, "N", align4(base)), 32, "S", align4(base), src),
                rotate_right(mem_value(m.mem, 32, align4(base)), (base[2] % 4) * 8))

\* single_data_swap reading the source register after the destination
\* was written.
single_data_swap_source_after_dest(args, m, instr) ==
    IF bits(instr, 23, 5) # 2 THEN panic(m, "assert_eq!(instr >> 23 & 0x1F, 0b00010)")
    ELSE IF bits(instr, 20, 2) # 0 THEN panic(m, "assert_eq!(instr >> 20 & 0x3, 0b00)")
    ELSE IF bits(instr, 4, 8) # 9
    THEN panic(m, "assert_eq!(instr >> 4 & 0xFF, 0b00001001)")
    ELSE LET base == get_reg_i(m.regs, bits(instr, 16, 4))
             value == single_data_swap_transfer(m, args[1], base, <<0, 0>>).value
             r == single_data_swap_transfer(
                      instruction_prefetch(m, "N"), args[1], base,
                      get_reg_i(set_reg_i(m.regs, bits(instr, 12, 4), value),
                                bits(instr, 0, 4)))
         IN  internal([r.m EXCEPT !.regs = set_reg_i(@, bits(instr, 12, 4), r.value)])

\* ARM7::single_data_swap::<B> (arm.rs 571-595)
single_data_swap(args, m, instr) ==
    IF bits(instr, 23, 5) # 2 THEN panic(m, "assert_eq!(instr >> 23 & 0x1F, 0b00010)")
    ELSE IF bits(instr, 20, 2) # 0 THEN panic(m, "assert_eq!(instr >> 20 & 0x3, 0b00)")
    ELSE IF bits(instr, 4, 8) # 9
    THEN panic(m, "assert_eq!(instr >> 4 & 0xFF, 0b00001001)")
    ELSE LET r == single_data_swap_transfer(
                      instruction_prefetch(m, "N"), args[1],
                      get_reg_i(m.regs, bits(instr, 16, 4)),
                      get_reg_i(m.regs, bits(instr, 0, 4)))
         IN  internal([r.m EXCEPT !.regs = set_reg_i(@, bits(instr, 12, 4), r.value)])

\* ARM7::inc_mul_clocks(op, signed): one internal cycle per byte of op up
\* to its most significant one, the bytes above being all zeros or, for a
\* signed operand, all ones.
inc_mul_clocks(m, op, signed) ==
    LET above(n) == bits(op, 8 * n, 32 - 8 * n)
        done(n) == above(n) = 0 \/ (signed /\ above(n) = 2^(32 - 8 * n) - 1)
        clocks == CHOOSE n \in 1..4 : (n = 4 \/ done(n)) /\ \A k \in 1..(n - 1) : ~done(k)
    IN  [m EXCEPT !.log = @ \o [i \in 1..clocks |->
                                  Access("internal", "mul", 0, "I", <<0, 0>>)]]

\* mul_mula accumulating the value of the destination register.
mul_mula_adding_dest(args, m, instr) ==
    LET A == args[1]
        S == args[2]
        dest_reg == bits(instr, 16, 4)
        op1_reg == dest_reg
        op2 == get_reg_i(m.regs, bits(instr, 8, 4))
        result == IF A
                  THEN add32(mul32(op2, get_reg_i(m.regs, bits(instr, 0, 4))),
                             get_reg_i(m.regs, op1_reg))
                  ELSE mul32(op2, get_reg_i(m.regs, bits(instr, 0, 4)))
        clocked == inc_mul_clocks(instruction_prefetch(m, "S"), op2, TRUE)
    IN
    IF bits(instr, 22, 6) # 0 THEN panic(m, "assert_eq!(instr >> 22 & 0x3F, 0b000000)")
    ELSE IF bits(instr, 4, 4) # 9 THEN panic(m, "assert_eq!(instr >> 4 & 0xF, 0b1001)")
    ELSE IF ~A /\ bits(instr, 12, 4) # 0 THEN panic(clocked, "assert_eq!(op1_reg, 0)")
    ELSE [(IF A THEN internal(clocked) ELSE clocked) EXCEPT
            !.regs = set_reg_i(
                        IF S THEN set_z(set_n(@, bits(result, 31, 1) # 0),
                                        result = <<0, 0>>)
                             ELSE @,
                        dest_reg, result)]

\* ARM7::mul_mula::<A, S> (arm.rs 207-232)
mul_mula(args, m, instr) ==
    LET A == args[1]
        S == args[2]
        dest_reg == bits(instr, 16, 4)
        op1_reg == bits(instr, 12, 4)
        op2 == get_reg_i(m.regs, bits(instr, 8, 4))
        result == IF A
                  THEN add32(mul32(op2, get_reg_i(m.regs, bits(instr, 0, 4))),
                             get_reg_i(m.regs, op1_reg))
                  ELSE mul32(op2, get_reg_i(m.regs, bits(instr, 0, 4)))
        clocked == inc_mul_clocks(instruction_prefetch(m, "S"), op2, TRUE)
    IN
    IF bits(instr, 22, 6) # 0 THEN panic(m, "assert_eq!(instr >> 22 & 0x3F, 0b000000)")
    ELSE IF bits(instr, 4, 4) # 9 THEN panic(m, "assert_eq!(instr >> 4 & 0xF, 0b1001)")
    ELSE IF ~A /\ bits(instr, 12, 4) # 0 THEN panic(clocked, "assert_eq!(op1_reg, 0)")
    ELSE [(IF A THEN internal(clocked) ELSE clocked) EXCEPT
            !.regs = set_reg_i(
                        IF S THEN set_z(set_n(@, bits(result, 31, 1) # 0),
                                        result = <<0, 0>>)
                             ELSE @,
                        dest_reg, result)]

\* A u64 is kept as its eight bytes, least significant first.  `op as u64`
\* and `op as i32 as u64`: the byte k of the widened operand.
widen_byte(op, signed, k) ==
    IF k < 4 THEN bits(op, 8 * k, 8)
    ELSE IF signed /\ bits(op, 31, 1) = 1 THEN 255 ELSE 0

\* The sum of the products of the bytes i..k of the first factor with the
\* bytes k - i..0 of the second: the column k of the long multiplication.
RECURSIVE mul_column(_, _, _, _, _)
mul_column(op1, op2, signed, k, i) ==
    IF i > k THEN 0
    ELSE widen_byte(op1, signed, i) * widen_byte(op2, signed, k - i)
         + mul_column(op1, op2, signed, k, i + 1)

\* The column k with the carry of the columns below it.
RECURSIVE mul_carried(_, _, _, _)
mul_carried(op1, op2, signed, k) ==
    mul_column(op1, op2, signed, k, 0)
    + (IF k = 0 THEN 0 ELSE mul_carried(op1, op2, signed, k - 1) \div 256)

\* (op1 as u64).wrapping_mul(op2 as u64), the operands widened as signed
\* or unsigned numbers: the product modulo 2^64 as [hi, lo].
wrapping_mul64(op1, op2, signed) ==
    LET byte(k) == mul_carried(op1, op2, signed, k) % 256 IN
    [hi |-> <<byte(6) + 256 * byte(7), byte(4) + 256 * byte(5)>>,
     lo |-> <<byte(2) + 256 * byte(3), byte(0) + 256 * byte(1)>>]

\* a.wrapping_add(b) on 64 bits.
wrapping_add64(a, b) ==
    LET lo == add32(a.lo, b.lo) IN
    [hi |-> add32(add32(a.hi, b.hi), IF lt32(lo, a.lo) THEN <<0, 1>> ELSE <<0, 0>>),
     lo |-> lo]

\* ARM7::mul_long::<U, A, S> (arm.rs 235-268); the const U is the handler's
\* `signed`.
mul_long(args, m, instr) ==
    LET signed == args[1]
        accumulate == args[2]
        change_status == args[3]
        src_dest_reg_high == bits(instr, 16, 4)
        src_dest_reg_low == bits(instr, 12, 4)
        op1 == get_reg_i(m.regs, bits(instr, 8, 4))
        op2 == get_reg_i(m.regs, bits(instr, 0, 4))
        clocked == inc_mul_clocks(internal(instruction_prefetch(m, "S")), op1, signed)
        result == wrapping_add64(
                    wrapping_mul64(op1, op2, signed),
                    IF accumulate
                    THEN [hi |-> get_reg_i(m.regs, src_dest_reg_high),
                          lo |-> get_reg_i(m.regs, src_dest_reg_low)]
                    ELSE [hi |-> <<0, 0>>, lo |-> <<0, 0>>])
    IN
    IF bits(instr, 23, 5) # 1 THEN panic(m, "assert_eq!(instr >> 23 & 0x1F, 0b00001)")
    ELSE IF bits(instr, 4, 4) # 9 THEN panic(m, "assert_eq!(instr >> 4 & 0xF, 0b1001)")
    ELSE [(IF accumulate THEN internal(clocked) ELSE clocked) EXCEPT
            !.regs = set_reg_i(
                        set_reg_i(
                            IF change_status
                            THEN set_z(set_n(@, bits(result.hi, 31, 1) # 0),
                                       result.hi = <<0, 0>> /\ result.lo = <<0, 0>>)
                            ELSE @,
                            src_dest_reg_low, result.lo),
                        src_dest_reg_high, result.hi)]

\* psr_transfer selecting the control byte by bit 16 alone.
psr_transfer_unprotected(args, m, instr) ==
    LET I == args[1]  P == args[2]  L == args[3]
        m1 == instruction_prefetch(m, "S")
        banked == P /\ get_mode(m1.regs) \in BankedModes
        status == IF P THEN get_spsr(m1.regs) ELSE m1.regs.cpsr
        mask == <<(IF bits(instr, 19, 1) # 0 THEN \hFF00 ELSE 0)
                    + (IF bits(instr, 18, 1) # 0 THEN \h00FF ELSE 0),
                  (IF bits(instr, 17, 1) # 0 THEN \hFF00 ELSE 0)
                    + (IF bits(instr, 16, 1) # 0 THEN \h00FF ELSE 0)>>
        operand == IF I THEN rotate_right(<<0, bits(instr, 0, 8)>>, bits(instr, 8, 4) * 2)
                   ELSE get_reg_i(m1.regs, bits(instr, 0, 4))
        value == or32(and32(status, not32(mask)), and32(operand, mask))
    IN
    IF bits(instr, 26, 2) # 0 THEN panic(m, "assert_eq!(instr >> 26 & 0b11, 0b00)")
    ELSE IF bits(instr, 23, 2) # 2 THEN panic(m, "assert_eq!(instr >> 23 & 0b11, 0b10)")
    ELSE IF bits(instr, 20, 1) # 0 THEN panic(m, "assert_eq!(instr >> 20 & 0b1, 0b0)")
    ELSE IF L
    THEN IF bits(instr, 12, 4) # 15 THEN panic(m1, "assert_eq!(instr >> 12 & 0xF, 0xF)")
         ELSE IF ~I /\ bits(instr, 4, 8) # 0
         THEN panic(m1, "assert_eq!(instr >> 4 & 0xFF, 0)")
         ELSE IF banked THEN [m1 EXCEPT !.regs.spsr[get_mode(m1.regs)] = value]
         ELSE [m1 EXCEPT !.regs.cpsr = value]
    ELSE IF I THEN panic(m1, "assert_eq!(immediate_operand, false)")
    ELSE IF bits(instr, 0, 12) # 0
    THEN panic([m1 EXCEPT !.regs = set_reg_i(@, bits(instr, 12, 4), status)],
               "assert_eq!(instr & 0xFFF, 0)")
    ELSE [m1 EXCEPT !.regs = set_reg_i(@, bits(instr, 12, 4), status)]

\* ARM7::psr_transfer::<I, P, L> (arm.rs 161-204).  A mode without an
\* SPSR reads and writes the CPSR in its place.
psr_transfer(args, m, instr) ==
    LET I == args[1]  P == args[2]  L == args[3]
        m1 == instruction_prefetch(m, "S")
        banked == P /\ get_mode(m1.regs) \in BankedModes
        status == IF P THEN get_spsr(m1.regs) ELSE m1.regs.cpsr
        mask == <<(IF bits(instr, 19, 1) # 0 THEN \hFF00 ELSE 0)
                    + (IF bits(instr, 18, 1) # 0 THEN \h00FF ELSE 0),
                  (IF bits(instr, 17, 1) # 0 THEN \hFF00 ELSE 0)
                    + (IF get_mode(m1.regs) # Mode.USR /\ bits(instr, 16, 1) # 0 THEN \h00FF ELSE 0)>>
        operand == IF I THEN rotate_right(<<0, bits(instr, 0, 8)>>, bits(instr, 8, 4) * 2)
                   ELSE get_reg_i(m1.regs, bits(instr, 0, 4))
        value == or32(and32(status, not32(mask)), and32(operand, mask))
    IN
    IF bits(instr, 26, 2) # 0 THEN panic(m, "assert_eq!(instr >> 26 & 0b11, 0b00)")
    ELSE IF bits(instr, 23, 2) # 2 THEN panic(m, "assert_eq!(instr >> 23 & 0b11, 0b10)")
    ELSE IF bits(instr, 20, 1) # 0 THEN panic(m, "assert_eq!(instr >> 20 & 0b1, 0b0)")
    ELSE IF L
    THEN IF bits(instr, 12, 4) # 15 THEN panic(m1, "assert_eq!(instr >> 12 & 0xF, 0xF)")
         ELSE IF ~I /\ bits(instr, 4, 8) # 0
         THEN panic(m1, "assert_eq!(instr >> 4 & 0xFF, 0)")
         ELSE IF banked THEN [m1 EXCEPT !.regs.spsr[get_mode(m1.regs)] = value]
         ELSE [m1 EXCEPT !.regs.cpsr = value]
    ELSE IF I THEN panic(m1, "assert_eq!(immediate_operand, false)")
    ELSE IF bits(instr, 0, 12) # 0
    THEN panic([m1 EXCEPT !.regs = set_reg_i(@, bits(instr, 12, 4), status)],
               "assert_eq!(instr & 0xFFF, 0)")
    ELSE [m1 EXCEPT !.regs = set_reg_i(@, bits(instr, 12, 4), status)]

\* a + b as the builds of the program compute it: the machine panics on
\* overflow when it was built with overflow checks.
checked_add(m, a, b) ==
    IF m.overflow_checks /\ a[1] + b[1] + ((a[2] + b[2]) \div H16) >= H16
    THEN Result(panic(m, "attempt to add with overflow"), add32(a, b))
    ELSE Result(m, add32(a, b))

count_ones(r_list) == Cardinality({k \in 0..15 : (r_list \div 2^k) % 2 = 1})

\* The load half of `exec` writing the base back after every load.
block_data_transfer_loaded_writing_back(m, reg, last_access, S, write_back, base_reg, final_addr) ==
    IF reg = 15
    THEN fill_arm_instr_buffer(
            [(IF last_access THEN internal(m) ELSE m) EXCEPT
                !.regs = LET r == set_reg_i(@, base_reg, final_addr) IN
                         IF S THEN restore_cpsr(r) ELSE r,
                !.next_access_type = "N"])
    ELSE [(IF last_access THEN internal(m) ELSE m) EXCEPT
            !.regs = set_reg_i(@, base_reg, final_addr)]

\* The load arm of the closure `exec` of block_data_transfer (arm.rs
\* 510-526), on the machine m after the read and the register write.
block_data_transfer_loaded(m, reg, last_access, S, write_back, base_reg, final_addr) ==
    IF reg = 15
    THEN fill_arm_instr_buffer(
            [(IF last_access THEN internal(m) ELSE m) EXCEPT
                !.regs = LET r == IF write_back THEN set_reg_i(@, base_reg, final_addr)
                                                ELSE @ IN
                         IF S THEN restore_cpsr(r) ELSE r,
                !.next_access_type = "N"])
    ELSE [(IF last_access THEN internal(m) ELSE m) EXCEPT
            !.regs = IF write_back THEN set_reg_i(@, base_reg, final_addr) ELSE @]

\* `exec` whose store arm writes the base back before it reads the register
\* to store.
block_data_transfer_exec_base_first(m, addr, reg, last_access, S, L, write_back, base_reg, final_addr) ==
    IF L
    THEN block_data_transfer_loaded(
            [read(m, 32, "S", addr) EXCEPT
                !.regs = set_reg_i(@, reg, mem_value(m.mem, 32, addr))],
            reg, last_access, S, write_back, base_reg, final_addr)
    ELSE [write(m, 32, IF last_access THEN "N" ELSE "S", addr,
                IF reg = 15 THEN add32(get_reg_i(m.regs, 15), <<0, 4>>)
                ELSE IF write_back /\ reg = base_reg THEN final_addr
                ELSE get_reg_i(m.regs, reg)) EXCEPT
            !.regs = IF write_back THEN set_reg_i(@, base_reg, final_addr) ELSE @]

\* The closure `exec` of block_data_transfer (arm.rs 509-550).
block_data_transfer_exec(m, addr, reg, last_access, S, L, write_back, base_reg, final_addr) ==
    IF L
    THEN block_data_transfer_loaded(
            [read(m, 32, "S", addr) EXCEPT
                !.regs = set_reg_i(@, reg, mem_value(m.mem, 32, addr))],
            reg, last_access, S, write_back, base_reg, final_addr)
    ELSE [write(m, 32, IF last_access THEN "N" ELSE "S", addr,
                IF reg = 15 THEN add32(get_reg_i(m.regs, 15), <<0, 4>>)
                            ELSE get_reg_i(m.regs, reg)) EXCEPT
            !.regs = IF write_back THEN set_reg_i(@, base_reg, final_addr) ELSE @]

\* calc_addr that returns the address before the increment whatever
\* pre_offset says.
calc_addr_post_only(m, addr, pre_offset, inc_amount) ==
    [m |-> checked_add(m, addr, inc_amount).m, value |-> addr]

\* The closure `calc_addr` (arm.rs 498-508): [m, value], the machine
\* (`addr += inc_amount` may overflow) and the address returned; the
\* captured addr becomes addr + inc_amount.
calc_addr(m, addr, pre_offset, inc_amount) ==
    [m |-> checked_add(m, addr, inc_amount).m,
     value |-> IF pre_offset THEN add32(addr, inc_amount) ELSE addr]

\* One transfer of the loop, at the address c = calc_addr() returned.
block_data_transfer_step(c, reg, last_access, S, L, write_back, base_reg, final_addr) ==
    IF panicked(c.m) THEN c.m
    ELSE block_data_transfer_exec(c.m, c.value, reg, last_access, S, L, write_back,
                                  base_reg, final_addr)

RECURSIVE block_data_transfer_loop(_, _, _, _, _, _, _, _, _, _, _)
block_data_transfer_loop(m, addr, r_list, reg, pre_offset, inc_amount, S, L, write_back, base_reg, final_addr) ==
    IF panicked(m) THEN m
    ELSE IF r_list # 1
    THEN IF r_list % 2 # 0
         THEN block_data_transfer_loop(
                  block_data_transfer_step(calc_addr(m, addr, pre_offset, inc_amount),
                                           reg, FALSE, S, L, write_back, base_reg,
                                           final_addr),
                  add32(addr, inc_amount), r_list \div 2, reg + 1, pre_offset,
                  inc_amount, S, L, write_back, base_reg, final_addr)
         ELSE block_data_transfer_loop(m, addr, r_list \div 2, reg + 1, pre_offset,
                                       inc_amount, S, L, write_back, base_reg, final_addr)
    ELSE block_data_transfer_step(calc_addr(m, addr, pre_offset, inc_amount),
                                  reg, TRUE, S, L, write_back, base_reg, final_addr)

\* block_data_transfer: final_addr (arm.rs 486-495), as [m, value].
block_data_transfer_final(m, add_offset, start_addr, num_regs, base_offset) ==
    LET sum == IF add_offset THEN add32(start_addr, <<0, 4 * num_regs>>) ELSE start_addr
        total == add32(sum, base_offset)
        final == IF num_regs = 0 THEN add32(total, <<0, 64>>) ELSE total
        overflows ==
            \/ add_offset /\ lt32(sum, start_addr)
            \/ lt32(total, sum)
            \/ num_regs = 0 /\ lt32(final, total)
    IN  Result(IF m.overflow_checks /\ overflows
               THEN panic(m, "attempt to add with overflow") ELSE m,
               final)

\* block_data_transfer: the transfers (arm.rs 551-565) and the return to
\* the mode the instruction started in, with final_addr f = [m, value].
block_data_transfer_run(f, num_regs, start_addr, r_list, pre_offset, S, L, write_back, base_reg, actual_mode) ==
    IF panicked(f.m) THEN f.m
    ELSE LET done ==
                IF num_regs = 0
                THEN block_data_transfer_exec(f.m, start_addr, 15, TRUE, S, L,
                                              write_back, base_reg, f.value)
                ELSE block_data_transfer_loop(f.m, start_addr, r_list, 0, pre_offset,
                                              <<0, 4>>, S, L, write_back, base_reg,
                                              f.value)
         IN  IF panicked(done) THEN done
             ELSE [done EXCEPT !.regs = set_mode(@, actual_mode)]

\* ARM7::block_data_transfer::<P, U, S, W, L> (arm.rs 455-568)
block_data_transfer(args, m, instr) ==
    LET P == args[1]  U == args[2]  S == args[3]
        W == args[4]  L == args[5]
        add_offset == U
        pre_offset == P # ~add_offset
        base_reg == bits(instr, 16, 4)
        base_full == get_reg_i(m.regs, base_reg)
        base_offset == <<0, base_full[2] % 4>>
        base == align4(base_full)
        r_list == bits(instr, 0, 16)
        num_regs == count_ones(r_list)
        start_addr == IF add_offset THEN base ELSE sub32(base, <<0, num_regs * 4>>)
    IN
    IF bits(instr, 25, 3) # 4 THEN panic(m, "assert_eq!(instr >> 25 & 0x7, 0b100)")
    ELSE IF base_reg = 15 THEN panic(m, "assert_ne!(base_reg, 0xF)")
    ELSE block_data_transfer_run(
            block_data_transfer_final(
                instruction_prefetch(
                    IF S /\ ~(L /\ (r_list \div 2^15) % 2 # 0)
                    THEN [m EXCEPT !.regs = set_mode(@, Mode.USR)] ELSE m,
                    "N"),
                add_offset, start_addr, num_regs, base_offset),
            num_regs, start_addr, r_list, pre_offset, S, L,
            W /\ ~(L /\ (r_list \div 2^base_reg) % 2 # 0),
            base_reg, get_mode(m.regs))

\* The call self.arm_lut[key](self, hw, instr).
dispatch(h, m, instr) ==
    CASE h.fn = "branch_and_exchange" -> branch_and_exchange(m, instr)
      [] h.fn = "branch_branch_with_link" -> branch_branch_with_link(h.args, m, instr)
      [] h.fn = "data_proc" -> data_proc(h.args, m, instr)
      [] h.fn = "single_data_transfer" -> single_data_transfer(h.args, m, instr)
      [] h.fn = "halfword_and_signed_data_transfer" ->
            halfword_and_signed_data_transfer(h.args, m, instr)
      [] h.fn = "block_data_transfer" -> block_data_transfer(h.args, m, instr)
      [] h.fn = "single_data_swap" -> single_data_swap(h.args, m, instr)
      [] h.fn = "mul_mula" -> mul_mula(h.args, m, instr)
      [] h.fn = "mul_long" -> mul_long(h.args, m, instr)
      [] h.fn = "psr_transfer" -> psr_transfer(h.args, m, instr)
      [] h.fn = "arm_software_interrupt" -> arm_software_interrupt(m, instr)
      [] h.fn = "coprocessor" -> coprocessor(m, instr)
      [] OTHER -> undefined_instr(m, instr)

\* The key of an instruction: (instr >> 16 & 0xFF0) | (instr >> 4 & 0xF).
lut_key(instr) == bits(instr, 20, 8) * 16 + bits(instr, 4, 4)

\* emulate_arm_instr without the test of the condition field: the handler
\* runs whatever the flags are.
emulate_arm_instr_unconditional(m) ==
    LET instr == m.instr_buffer[1].word
        m1 == [m EXCEPT !.instr_buffer[1] = m.instr_buffer[2],
                        !.regs.pc = add32(@, <<0, 4>>)]
    IN  dispatch(arm_lut[lut_key(instr)], m1, instr)

\* ARM7::emulate_arm_instr (arm.rs 18-40)
emulate_arm_instr(m) ==
    LET instr == m.instr_buffer[1].word
        m1 == [m EXCEPT !.instr_buffer[1] = m.instr_buffer[2],
                        !.regs.pc = add32(@, <<0, 4>>)]
    IN  IF should_exec(m1.regs, bits(instr, 28, 4))
        THEN dispatch(arm_lut[lut_key(instr)], m1, instr)
        ELSE instruction_prefetch(m1, "S")

(***************************************************************************)
(* The ARM7 as a state machine: the buffer is filled at the entry point,   *)
(* then the processor steps.                                               *)
(***************************************************************************)
\* The machine the operators above work on, with an empty log.
machine ==
    [regs |-> arm7.regs, instr_buffer |-> arm7.instr_buffer,
     next_access_type |-> arm7.next_access_type, mem |-> bus_mem, log |-> <<>>,
     panic |-> "none", overflow_checks |-> overflow_checks]

\* The state after the operation that took `machine` to m.
becomes(m) ==
    /\ arm7' = [regs |-> m.regs, instr_buffer |-> m.instr_buffer,
                next_access_type |-> m.next_access_type]
    /\ bus_mem' = m.mem
    /\ bus_log' = m.log
    /\ arm7_panic' = m.panic
    /\ UNCHANGED overflow_checks

MaxSteps == 3       \* instructions stepped in one run

\* The first and the second instruction of a program, as
\* <<bits 31..16, bits 15..0>>.
FirstInstrs ==
    {\* data_proc
     <<\hE1A0, \h0000>>,    \* MOV r0, r0
     <<\hE091, \h1002>>,    \* ADDS r1, r1, r2
     <<\hE1A0, \hF000>>,    \* MOV pc, r0
     <<\hE1B0, \hF00E>>,    \* MOVS pc, lr
     <<\hE25E, \hF004>>,    \* SUBS pc, lr, #4
     <<\hE05E, \hF00E>>,    \* SUBS pc, lr, lr
     <<\hE15E, \hF00E>>,    \* CMP lr, lr with destination pc
     <<\hE1A0, \h121F>>,    \* MOV r1, pc, LSL r2
     <<\hE08F, \h1210>>,    \* ADD r1, pc, r0, LSL r2
     <<\hE1A0, \h1210>>,    \* MOV r1, r0, LSL r2
     <<\hE1A0, \hF210>>,    \* MOV pc, r0, LSL r2
     <<\hE151, \h0002>>,    \* CMP r1, r2
     \* branch_and_exchange, branch_branch_with_link
     <<\hEA00, \h0002>>,    \* B +8
     <<\hEBFF, \hFFFC>>,    \* BL -16
     <<\hEB00, \h0001>>,    \* BL +4
     <<\hEAFF, \hFFFE>>,    \* B -8
     <<\h1A00, \h0002>>,    \* BNE +8
     <<\hE12F, \hFF10>>,    \* BX r0
     <<\hE12F, \hFF11>>,    \* BX r1
     <<\hE12F, \hFF14>>,    \* BX r4
     <<\hE12F, \hFF16>>,    \* BX r6
     <<\hE12F, \hFF1F>>,    \* BX pc
     \* arm_software_interrupt, coprocessor, undefined_instr_arm
     <<\hEF00, \h0000>>,    \* SWI 0
     <<\hEE00, \h0000>>,    \* CDP
     <<\hEE10, \h0010>>,    \* MRC
     <<\hED90, \h0000>>,    \* LDC
     <<\hEC00, \h0000>>,    \* STC
     <<\h1E00, \h0000>>,    \* CDPNE
     <<\h0600, \h0010>>,    \* undefined, condition EQ
     <<\hE600, \h0010>>,    \* undefined
     \* single_data_transfer
     <<\hE590, \h1000>>,    \* LDR r1, [r0]
     <<\hE590, \hF000>>,    \* LDR pc, [r0]
     <<\hE590, \h1001>>,    \* LDR r1, [r0, #1]
     <<\hE7D0, \h1002>>,    \* LDRB r1, [r0, r2]
     <<\hE580, \h1000>>,    \* STR r1, [r0]
     <<\hE480, \hF004>>,    \* STR pc, [r0], #4
     <<\hE49F, \h1004>>,    \* LDR r1, [pc], #4
     <<\hE5AF, \h1004>>,    \* STR r1, [pc, #4]!
     <<\hE490, \h0004>>,    \* LDR r0, [r0], #4
     <<\hE5B0, \h0004>>,    \* LDR r0, [r0, #4]!
     <<\hE4D0, \h0001>>,    \* LDRB r0, [r0], #1
     <<\hE490, \h1004>>,    \* LDR r1, [r0], #4
     <<\hE5B0, \h1004>>,    \* LDR r1, [r0, #4]!
     <<\hE590, \h1002>>,    \* LDR r1, [r0, #2]
     <<\hE590, \h1003>>,    \* LDR r1, [r0, #3]
     <<\hE590, \h1005>>,    \* LDR r1, [r0, #5]
     <<\hE590, \h1006>>,    \* LDR r1, [r0, #6]
     <<\hE590, \h1007>>,    \* LDR r1, [r0, #7]
     <<\hE580, \hF000>>,    \* STR pc, [r0]
     <<\hE5C0, \hF000>>,    \* STRB pc, [r0]
     \* halfword and signed transfers
     <<\hE0D0, \h00B2>>,    \* LDRH r0, [r0], #2
     <<\hE1F0, \h00B2>>,    \* LDRH r0, [r0, #2]!
     <<\hE1F0, \h00D4>>,    \* LDRSB r0, [r0, #4]!
     <<\hE0D0, \h00F4>>,    \* LDRSH r0, [r0], #4
     <<\hE0D0, \h10B2>>,    \* LDRH r1, [r0], #2
     <<\hE1F0, \h10B2>>,    \* LDRH r1, [r0, #2]!
     <<\hE1D0, \h10B5>>,    \* LDRH r1, [r0, #5]
     <<\hE1D0, \h10F5>>,    \* LDRSH r1, [r0, #5]
     <<\hE1D0, \h10D7>>,    \* LDRSB r1, [r0, #7]
     <<\hE1D0, \h10F6>>,    \* LDRSH r1, [r0, #6]
     <<\hE190, \h10B2>>,    \* LDRH r1, [r0, r2]
     <<\hE1C0, \h10B0>>,    \* STRH r1, [r0]
     <<\hE1C0, \h10B2>>,    \* STRH r1, [r0, #2]
     <<\hE1C0, \hF0B0>>,    \* STRH pc, [r0]
     \* status register transfers
     <<\hE128, \hF007>>,    \* MSR CPSR_f, r7
     <<\hE126, \hF007>>,    \* MSR CPSR_sx, r7
     <<\hE321, \hF01F>>,    \* MSR CPSR_c, #0x1F
     <<\hE32F, \hF01F>>,    \* MSR CPSR_fsxc, #0x1F
     <<\hE328, \hF4F0>>,    \* MSR CPSR_f, #0xF0000000
     <<\hE369, \hF0D3>>,    \* MSR SPSR_fc, #0xD3
     <<\hE10F, \h1000>>,    \* MRS r1, CPSR
     <<\hE14F, \h1000>>,    \* MRS r1, SPSR
     \* multiplies
     <<\hE021, \h3092>>,    \* MLA r1, r2, r0, r3
     <<\hE021, \h1092>>,    \* MLA r1, r2, r0, r1
     <<\hE039, \h5491>>,    \* MLAS r9, r1, r4, r5
     <<\hE001, \h0092>>,    \* MUL r1, r2, r0
     <<\hE001, \h0290>>,    \* MUL r1, r0, r2
     <<\hE019, \h0797>>,    \* MULS r9, r7, r7
     \* swaps
     <<\hE100, \h1092>>,    \* SWP r1, r2, [r0]
     <<\hE108, \h1092>>,    \* SWP r1, r2, [r8]
     <<\hE104, \h1092>>,    \* SWP r1, r2, [r4]
     <<\hE106, \h1092>>,    \* SWP r1, r2, [r6]
     <<\hE148, \h1092>>,    \* SWPB r1, r2, [r8]
     <<\hE100, \h2092>>,    \* SWP r2, r2, [r0]
     <<\hE100, \h0092>>,    \* SWP r0, r2, [r0]
     <<\hE100, \h0090>>,    \* SWP r0, r0, [r0]
     <<\hE146, \h1091>>,    \* SWPB r1, r1, [r6]
     <<\hE148, \h8092>>,    \* SWPB r8, r2, [r8]
     \* block_data_transfer
     <<\hE890, \h0000>>,    \* LDMIA r0, {}
     <<\hE8B0, \h0000>>,    \* LDMIA r0!, {}
     <<\hE930, \h0000>>,    \* LDMDB r0!, {}
     <<\hE8A0, \h0000>>,    \* STMIA r0!, {}
     <<\hE820, \h0000>>,    \* STMDA r0!, {}
     <<\hE900, \h0000>>,    \* STMDB r0, {}
     <<\hE8A3, \h0000>>,    \* STMIA r3!, {}
     <<\hE8B0, \h0006>>,    \* LDMIA r0!, {r1, r2}
     <<\hE890, \h8000>>,    \* LDMIA r0, {pc}
     <<\hE92D, \h4002>>,    \* STMDB sp!, {r1, lr}
     <<\hE9A3, \h0006>>,    \* STMIB r3!, {r1, r2}
     <<\hE805, \h0006>>,    \* STMDA r5, {r1, r2}
     <<\hE915, \h0006>>,    \* LDMDB r5, {r1, r2}
     <<\hE815, \h0006>>,    \* LDMDA r5, {r1, r2}
     <<\hE990, \h0006>>,    \* LDMIB r0, {r1, r2}
     <<\hE881, \h0014>>,    \* STMIA r1, {r2, r4}
     <<\hE894, \h0006>>,    \* LDMIA r4, {r1, r2}
     <<\hE887, \h0006>>,    \* STMIA r7, {r1, r2}
     <<\hE880, \h8000>>,    \* STMIA r0, {pc}
     <<\hE880, \h8002>>,    \* STMIA r0, {r1, pc}
     <<\hE8B0, \h0003>>,    \* LDMIA r0!, {r0, r1}
     <<\hE8A0, \h0003>>,    \* STMIA r0!, {r0, r1}
     <<\hE8A1, \h0003>>,    \* STMIA r1!, {r0, r1}
     <<\hE925, \h0022>>,    \* STMDB r5!, {r1, r5}
     <<\hE9A4, \h0034>>,    \* STMIB r4!, {r2, r4, r5}
     <<\hE820, \h0005>>,    \* STMDA r0!, {r0, r2}
     <<\hE935, \h0022>>,    \* LDMDB r5!, {r1, r5}
     <<\hE935, \h0006>>,    \* LDMDB r5!, {r1, r2}
     <<\hE8B4, \h0006>>,    \* LDMIA r4!, {r1, r2}
     <<\hE8D0, \h8000>>,    \* LDMIA r0, {pc}^
     <<\hE8D0, \hA000>>,    \* LDMIA r0, {sp, pc}^
     \* block_data_transfer with the force-user bit and write-back
     <<\hE96D, \h4002>>,    \* STMDB sp!, {r1, lr}^
     <<\hE8ED, \h6000>>,    \* STMIA sp!, {sp, lr}^
     <<\hE96D, \h2002>>,    \* STMDB sp!, {r1, sp}^
     <<\hE8FD, \h2002>>,    \* LDMIA sp!, {r1, sp}^
     <<\hE8FD, \h0006>>,    \* LDMIA sp!, {r1, r2}^
     \* mul_long
     <<\hE081, \h0392>>,    \* UMULL r0, r1, r2, r3
     <<\hE0C1, \h0392>>,    \* SMULL r0, r1, r2, r3
     <<\hE0F3, \h2190>>}    \* SMLALS r2, r3, r0, r1
SecondInstrs ==
    {<<\hE1A0, \h0000>>,    \* MOV r0, r0
     <<\h1A00, \h0002>>,    \* BNE +8
     <<\h1E00, \h0000>>,    \* CDPNE
     <<\hE590, \h1000>>,    \* LDR r1, [r0]
     <<\hEF00, \h0000>>,    \* SWI 0
     <<\hE8A0, \h0000>>}    \* STMIA r0!, {}

\* Entry points, the registers and the data the program starts with.
Entries == {<<\h0200, \h0000>>, <<\hFFFF, \hFFF8>>}
DataAddr == <<\h0200, \h0100>>
DataWords == <<<<\h0200, \h0040>>, <<\h8765, \h4321>>>>

InitRegs(entry, mode, z, t) ==
    [pc |-> entry,
     r |-> [i \in 0..14 |->
              CASE i = 0 -> DataAddr
                [] i = 1 -> <<\h0200, \h0041>>
                [] i = 2 -> <<0, 1>>
                [] i = 3 -> <<\hFFFF, \hFFE0>>
                [] i = 4 -> add32(DataAddr, <<0, 2>>)
                [] i = 5 -> add32(DataAddr, <<0, 8>>)
                [] i = 6 -> add32(DataAddr, <<0, 3>>)
                [] i = 7 -> <<\hFFFF, \hFFFC>>
                [] i = 8 -> add32(DataAddr, <<0, 5>>)
                [] i = 13 -> <<\h0300, \h7F00>>
                [] i = 14 -> <<\h0200, \h0080>>
                [] OTHER -> <<\h1000, i>>],
     banked |-> [b \in BankedModes |-> [i \in 8..14 |->
              IF i = 13 THEN <<\h0300, \h7E00 + b>> ELSE <<\h0200, \h00C0>>]],
     cpsr |-> <<IF z THEN \h4000 ELSE 0, \hC0 + mode>>,
     spsr |-> [b \in BankedModes |-> <<\h2000, (IF t THEN \h20 ELSE 0) + Mode.USR>>]]

InitArm ==
    \E entry \in Entries, mode \in {Mode.USR, Mode.SVC}, z \in BOOLEAN, t \in BOOLEAN,
       first \in FirstInstrs, second \in SecondInstrs :
        /\ arm7 = [regs |-> InitRegs(entry, mode, z, t),
                   instr_buffer |-> <<Slot(<<0, 0>>, <<0, 0>>), Slot(<<0, 0>>, <<0, 0>>)>>,
                   next_access_type |-> "N"]
        /\ bus_mem = (entry :> first) @@ (add32(entry, <<0, 4>>) :> second)
                     @@ (DataAddr :> DataWords[1])
                     @@ (add32(DataAddr, <<0, 4>>) :> DataWords[2])
        /\ bus_log = <<>>
        /\ arm7_panic = "none"
        /\ overflow_checks \in BOOLEAN
        /\ arm7_last = [op |-> "new"]
        /\ arm7_steps = 0

\* The first fill of the buffer, at the entry point.
reset_fill ==
    /\ arm7_last.op = "new"
    /\ becomes(fill_arm_instr_buffer(machine))
    /\ arm7_last' = [op |-> "fill", entry |-> arm7.regs.pc]
    /\ UNCHANGED arm7_steps

\* One step of the processor in 32-bit mode; the observer arm7_last keeps
\* what the step consumed: the instruction, the address it was fetched
\* from, the registers before the step, pc as the handler saw it.
step ==
    /\ arm7_last.op # "new"
    /\ arm7_panic = "none"
    /\ ~get_t(arm7.regs)
    /\ arm7_steps < MaxSteps
    /\ LET slot == arm7.instr_buffer[1]
           h == arm_lut[lut_key(slot.word)]
           exec == should_exec(arm7.regs, bits(slot.word, 28, 4)) IN
        /\ becomes(emulate_arm_instr(machine))
        /\ arm7_last' = [op |-> "step", instr |-> slot.word, from |-> slot.from,
                         executed |-> exec, handler |-> h,
                         pc |-> add32(arm7.regs.pc, <<0, 4>>),
                         mem |-> bus_mem,
                         before |-> arm7.regs]
    /\ arm7_steps' = arm7_steps + 1

NextArm == reset_fill \/ step

(***************************************************************************)
(* The scheduler, as section 4.3 of the specification describes it: a     *)
(* cycle counter and at most one pending event per kind.                   *)
(***************************************************************************)
\* Event::TimerOverflow(is_nds9, index); is_nds9 is kept as `is_nds9 as usize`.
TimerOverflow(i, num) == <<"TimerOverflow", i, num>>

\* scheduler.remove(event)
scheduler_remove(queue, event) == SelectSeq(queue, LAMBDA e : e.event # event)

\* scheduler.schedule(event, handler, delay) called at cycle `now`.
scheduler_schedule(queue, now, event, delay) ==
    Append(scheduler_remove(queue, event), [event |-> event, cycle |-> now + delay])

\* Some pending event has reached its trigger cycle.
events_due(queue, now) == \E k \in 1..Len(queue) : queue[k].cycle <= now

\* The event the driving loop fires next: the earliest trigger, ties broken
\* by insertion order.
next_event_index(queue) ==
    CHOOSE k \in 1..Len(queue) :
        \A j \in 1..Len(queue) :
            \/ queue[k].cycle < queue[j].cycle
            \/ (queue[k].cycle = queue[j].cycle /\ k <= j)

(***************************************************************************)
(* Timers (timers.rs).                                                     *)
(***************************************************************************)
NUM_TIMERS == 4
PRESCALERS == <<1, 64, 256, 1024>>

\* PRESCALERS[self.cnt.prescaler as usize]
prescaler_of(t) == PRESCALERS[t.cnt.prescaler + 1]

\* TMCNT::new (timers.rs 251-258)
TMCNT_new == [prescaler |-> 0, count_up |-> FALSE, irq |-> FALSE, start |-> FALSE]

\* Timer::new (timers.rs 59-74)
Timer_new ==
    [reload |-> 0, cnt |-> TMCNT_new, counter |-> 0,
     start_cycle |-> 0, time_till_first_clock |-> 0, timer_len |-> 0]

\* TMCNT::read (timers.rs 223-234): the byte, or the panic of the arm
\* `_ => unreachable!()`.
TMCNT_read(cnt, byte) ==
    CASE byte = 0 ->
            Value((IF cnt.start THEN 128 ELSE 0) + (IF cnt.irq THEN 64 ELSE 0)
                  + (IF cnt.count_up THEN 4 ELSE 0) + cnt.prescaler)
      [] byte = 1 -> Value(0)
      [] OTHER -> Panic("internal error: entered unreachable code")

\* TMCNT::write (timers.rs 236-247): the register after the write, or the
\* panic of the arm `_ => unreachable!()`, as [panic, cnt].
TMCNT_write(cnt, byte, value) ==
    CASE byte = 0 ->
            [panic |-> "none",
             cnt |-> [start |-> (value \div 128) % 2 = 1,
                      irq |-> (value \div 64) % 2 = 1,
                      count_up |-> (value \div 4) % 2 = 1,
                      prescaler |-> value % 4]]
      [] byte = 1 -> [panic |-> "none", cnt |-> cnt]
      [] OTHER -> [panic |-> "internal error: entered unreachable code", cnt |-> cnt]

\* Timer::is_count_up (timers.rs 133-135)
is_count_up(t) == t.cnt.count_up

\* Timer::clock with an overflow that wraps to zero instead of reloading.
clock_wraps_to_zero(t) ==
    IF ~is_count_up(t)
    THEN [panic |-> "assertion failed: self.is_count_up()",
          timer |-> t, overflowed |-> FALSE]
    ELSE IF t.cnt.start
    THEN IF t.counter = 65535
         THEN [panic |-> "none", timer |-> [t EXCEPT !.counter = 0],
               overflowed |-> TRUE]
         ELSE [panic |-> "none", timer |-> [t EXCEPT !.counter = t.counter + 1],
               overflowed |-> FALSE]
    ELSE [panic |-> "none", timer |-> t, overflowed |-> FALSE]

\* Timer::clock (timers.rs 76-88): [panic, timer, overflowed]; the
\* assert!(self.is_count_up()) fails on a timer that is not in count-up
\* mode and leaves it as it was.
clock(t) ==
    IF ~is_count_up(t)
    THEN [panic |-> "assertion failed: self.is_count_up()",
          timer |-> t, overflowed |-> FALSE]
    ELSE IF t.cnt.start
    THEN IF t.counter = 65535
         THEN [panic |-> "none", timer |-> [t EXCEPT !.counter = t.reload],
               overflowed |-> TRUE]
         ELSE [panic |-> "none", timer |-> [t EXCEPT !.counter = t.counter + 1],
               overflowed |-> FALSE]
    ELSE [panic |-> "none", timer |-> t, overflowed |-> FALSE]


\* Timer::calc_counter (timers.rs 90-101): the set of outcomes the builds of
\* the program can produce.  `global_cycle - self.start_cycle` with a later
\* start cycle panics in a build with overflow checks and wraps in one
\* without, where the huge difference then fails the assert!; the u16 sum
\* panics with overflow checks and wraps without.
calc_counter(t, global_cycle) ==
    IF global_cycle < t.start_cycle
    THEN {Panic("calc_counter: global_cycle - start_cycle")}
    ELSE LET cycles_passed == global_cycle - t.start_cycle IN
         IF cycles_passed >= t.time_till_first_clock
         THEN LET counter_change ==
                      (cycles_passed - t.time_till_first_clock) \div prescaler_of(t) IN
              IF counter_change >= 65536
              THEN {Panic("calc_counter: assert counter_change < 0x10000")}
              ELSE IF t.counter + 1 + counter_change > 65535
              THEN {Panic("calc_counter: u16 add overflow"),
                    Value((t.counter + 1 + counter_change) % 65536)}
              ELSE {Value(t.counter + 1 + counter_change)}
         ELSE {Value(t.counter)}

\* Timer::reload (timers.rs 103-105)
reload(t) == [t EXCEPT !.counter = t.reload]

\* Timer::create_event with a timer_len that does not take off the clock
\* that time_till_first_clock already accounts for.
create_event_full_len(t, i, num, queue, now, delay) ==
    LET start_cycle == now + delay
        prescaler == prescaler_of(t)
        time_till_first_clock == prescaler - ((start_cycle + 1) % prescaler)
        timer_len == prescaler * (65536 - t.reload)
    IN  [timer |-> [t EXCEPT !.start_cycle = start_cycle,
                             !.time_till_first_clock = time_till_first_clock,
                             !.timer_len = timer_len],
         queue |-> scheduler_schedule(queue, now, TimerOverflow(i, num),
                                      delay + time_till_first_clock + timer_len)]

\* Timer::create_event (timers.rs 107-131) for timer `num` of processor i.
create_event(t, i, num, queue, now, delay) ==
    LET start_cycle == now + delay
        prescaler == prescaler_of(t)
        time_till_first_clock == prescaler - ((start_cycle + 1) % prescaler)
        timer_len == prescaler * (65536 - t.reload - 1)
    IN  [timer |-> [t EXCEPT !.start_cycle = start_cycle,
                             !.time_till_first_clock = time_till_first_clock,
                             !.timer_len = timer_len],
         queue |-> scheduler_schedule(queue, now, TimerOverflow(i, num),
                                      delay + time_till_first_clock + timer_len)]

\* Timer::read (timers.rs 137-150): the outcomes of reading byte lane `byte`.
Timer_read(t, now, byte) ==
    LET counters == IF is_count_up(t) \/ ~t.cnt.start
                    THEN {Value(t.counter)}
                    ELSE calc_counter(t, now) IN
    {IF c.panic # "none" THEN c
     ELSE CASE byte = 0 -> Value(c.value % 256)
            [] byte = 1 -> Value(c.value \div 256)
            [] byte \in {2, 3} -> TMCNT_read(t.cnt, byte - 2)
            [] OTHER -> Panic("internal error: entered unreachable code")
     : c \in counters}

\* The control-byte arm of Timer::write leaving the event of a timer it
\* does not restart in the queue.
write_control_keeping_event(t, i, num, queue, now, value) ==
    LET removed == scheduler_remove(queue, TimerOverflow(i, num))
        prev_start == t.cnt.start
        t1 == [t EXCEPT !.cnt = TMCNT_write(t.cnt, 0, value).cnt]
    IN  IF ~is_count_up(t1)
        THEN IF ~prev_start /\ t1.cnt.start
             THEN create_event(reload(t1), i, num, removed, now, 1)
             ELSE IF t1.cnt.start
             THEN create_event(t1, i, num, removed, now, 0)
             ELSE [timer |-> t1, queue |-> queue]
        ELSE IF ~prev_start /\ t1.cnt.start
             THEN [timer |-> [t1 EXCEPT !.counter = t1.reload], queue |-> queue]
             ELSE [timer |-> t1, queue |-> queue]

\* The control-byte arm of Timer::write (timers.rs 157-183), after the
\* counter has been brought up to date.
write_control(t, i, num, queue, now, value) ==
    LET removed == scheduler_remove(queue, TimerOverflow(i, num))
        prev_start == t.cnt.start
        t1 == [t EXCEPT !.cnt = TMCNT_write(t.cnt, 0, value).cnt]
    IN  IF ~is_count_up(t1)
        THEN IF ~prev_start /\ t1.cnt.start
             THEN create_event(reload(t1), i, num, removed, now, 1)
             ELSE IF t1.cnt.start
             THEN create_event(t1, i, num, removed, now, 0)
             ELSE [timer |-> t1, queue |-> removed]
        ELSE IF ~prev_start /\ t1.cnt.start
             THEN [timer |-> [t1 EXCEPT !.counter = t1.reload], queue |-> removed]
             ELSE [timer |-> t1, queue |-> removed]

\* Timer::write (timers.rs 152-187): the outcomes [panic, timer, queue].
Timer_write(t, i, num, queue, now, byte, value) ==
    CASE byte = 0 ->
            {[panic |-> "none", queue |-> queue,
              timer |-> [t EXCEPT !.reload = (t.reload - (t.reload % 256)) + value]]}
      [] byte = 1 ->
            {[panic |-> "none", queue |-> queue,
              timer |-> [t EXCEPT !.reload = (t.reload % 256) + value * 256]]}
      [] byte = 2 ->
            LET counters == IF ~is_count_up(t) /\ t.cnt.start
                            THEN calc_counter(t, now)
                            ELSE {Value(t.counter)} IN
            {IF c.panic # "none"
             THEN [panic |-> c.panic, timer |-> t,
                   queue |-> scheduler_remove(queue, TimerOverflow(i, num))]
             ELSE LET w == write_control([t EXCEPT !.counter = c.value],
                                         i, num, queue, now, value) IN
                  [panic |-> "none", queue |-> w.queue, timer |-> w.timer]
             : c \in counters}
      [] byte = 3 ->
            {[panic |-> TMCNT_write(t.cnt, 1, value).panic, queue |-> queue,
              timer |-> [t EXCEPT !.cnt = TMCNT_write(t.cnt, 1, value).cnt]]}
      [] OTHER ->
            {[panic |-> "internal error: entered unreachable code",
              queue |-> queue, timer |-> t]}

\* HW::on_timer_overflow (timers.rs 191-211) on the hardware state
\* hw = [timers, interrupts, queue, log] at cycle `now`.  InterruptRequest::
\* TIMERn_OVERFLOW, the flag Timers::new gives timer n, is kept as n.  The
\* log records each entry of the handler and each call of Timer::clock,
\* which is made on a count-up timer only, so that its assertion holds.
RECURSIVE on_timer_overflow(_, _, _, _)
on_timer_overflow(hw, now, i, num) ==
    LET hw0 == [hw EXCEPT !.log = Append(@, <<"overflow", num>>)]
        hw1 == IF hw0.timers[i][num].cnt.irq
               THEN [hw0 EXCEPT !.interrupts[i] = @ \cup {num}]
               ELSE hw0
        hw2 == IF num + 1 < NUM_TIMERS /\ is_count_up(hw1.timers[i][num + 1])
               THEN LET c == clock(hw1.timers[i][num + 1])
                        clocked == [hw1 EXCEPT !.timers[i][num + 1] = c.timer,
                                               !.log = Append(@, <<"clock", num + 1>>)] IN
                    IF c.overflowed
                    THEN on_timer_overflow(clocked, now, i, num + 1)
                    ELSE clocked
               ELSE hw1
    IN  IF ~is_count_up(hw2.timers[i][num])
        THEN LET e == create_event(reload(hw2.timers[i][num]), i, num,
                                   hw2.queue, now, 0) IN
             [hw2 EXCEPT !.timers[i][num] = e.timer, !.queue = e.queue]
        ELSE hw2

\* The handler run on the hardware as it is when event `e` leaves the queue.
fire_event(tm, irqs, queue, now, e) ==
    on_timer_overflow([timers |-> tm, interrupts |-> irqs,
                       queue |-> SelectSeq(queue, LAMBDA x : x # e), log |-> <<>>],
                      now, e.event[2], e.event[3])

\* Observer of the count-up timers of the ARM9: for a timer started in
\* count-up mode, the reload value it was started with, the cascade clocks
\* it has received and the overflows it has had since; `reload` is -1 for
\* a timer that is not running in count-up mode, was switched to it while
\* running, or has had its reload register changed since it started.
NoObs == [reload |-> -1, clocks |-> 0, overflows |-> 0]

obs_after_write(old_t, new_t, obs) ==
    IF new_t.cnt.start /\ new_t.cnt.count_up
    THEN IF ~old_t.cnt.start
         THEN [reload |-> new_t.reload, clocks |-> 0, overflows |-> 0]
         ELSE IF old_t.cnt.count_up /\ new_t.reload = obs.reload THEN obs ELSE NoObs
    ELSE NoObs

occurrences(log, entry) == Cardinality({k \in 1..Len(log) : log[k] = entry})

obs_after_fire(obs, log) ==
    [num \in 0..(NUM_TIMERS - 1) |->
        IF obs[num].reload = -1 THEN obs[num]
        ELSE [obs[num] EXCEPT
                !.clocks = @ + occurrences(log, <<"clock", num>>),
                !.overflows = @ + occurrences(log, <<"overflow", num>>)]]

(***************************************************************************)
(* The timer registers on the ARM9 I/O bus (arm9.rs 151-154, 297-306) and  *)
(* the loop that drives the scheduler.                                     *)
(***************************************************************************)
TimerRegs == 67109120..67109135        \* 0x0400_0100 ..= 0x0400_010F

\* The timer a register address selects: self.timers[1][(addr - 0x100) / 4].
timer_index(addr) == (addr - 67109120) \div 4

\* The values the software writes to a byte lane of a timer's registers: a
\* reload byte, a control byte (0x00 stop, 0x04 count-up and stopped, 0x80
\* start at prescaler 1, 0xC1 start at prescaler 64 with the interrupt
\* enabled, 0xC4 start in count-up mode with the interrupt enabled), or the
\* unused upper control byte.
ReloadBytes == {255}
ControlBytes == {0, 4, 128, 193, 196}
IoBytes(addr) ==
    CASE addr % 4 = 0 -> IF timer_index(addr) <= 1 THEN ReloadBytes ELSE {}
      [] addr % 4 = 1 -> IF timer_index(addr) = 0 THEN ReloadBytes ELSE {}
      [] addr % 4 = 2 -> IF timer_index(addr) = 3 THEN {128, 196} ELSE ControlBytes
      [] OTHER -> IF timer_index(addr) = 0 THEN {255} ELSE {}

MaxIoWrites == 3    \* register writes in one run
MaxCycle == 2       \* the software writes registers up to this cycle
MaxLate == 1        \* cycles by which a step may overrun an event's trigger
MaxFired == 4       \* events fired in one run

\* The hardware after construction and after the software has programmed the
\* reload registers of the ARM9 timers (a write to byte lane 0 or 1 changes
\* nothing but `reload`).
InitReloads == {0, 65534}

(***************************************************************************)
(* The ARM9 bus (hw/mem/arm9.rs 11-99, 110-119, 555-579).  The memories    *)
(* are byte arrays, kept as functions from the indices written so far to   *)
(* bytes; a byte never written is 0.  The control coprocessor's view of    *)
(* the tightly coupled memories, the shared-WRAM control register, the     *)
(* cartridge and HW::read_mem / HW::write_mem are taken from the           *)
(* hardware's description.                                                 *)
(***************************************************************************)
\* CP15::addr_in_itcm(addr), CP15::addr_in_dtcm(addr): the address lies in
\* the window the control coprocessor has mapped the memory at.
addr_in_itcm(cp15, addr) == cp15.itcm_enabled /\ lt32(addr, cp15.itcm_end)
addr_in_dtcm(cp15, addr) ==
    cp15.dtcm_enabled /\ ~lt32(addr, cp15.dtcm_base) /\ lt32(addr, cp15.dtcm_end)

\* ARM9MemoryRegion::from_addr (arm9.rs 555-579)
from_addr(addr, cp15) ==
    IF addr_in_itcm(cp15, addr) THEN "ITCM"
    ELSE IF addr_in_dtcm(cp15, addr) THEN "DTCM"
    ELSE CASE bits(addr, 24, 8) = 2 -> "MainMem"
           [] bits(addr, 24, 8) = 3 -> "SharedWRAM"
           [] bits(addr, 24, 8) = 4 -> "IO"
           [] bits(addr, 24, 8) = 5 -> "Palette"
           [] bits(addr, 24, 8) = 6 -> "VRAM"
           [] bits(addr, 24, 8) = 7 -> "OAM"
           [] bits(addr, 24, 8) \in {8, 9} -> "GBAROM"
           [] bits(addr, 24, 8) = 10 -> "GBARAM"
           [] bits(addr, 24, 8) = 255 /\ bits(addr, 16, 16) = 65535 -> "BIOS"
           [] OTHER -> "Unknown"

\* HW::read_mem::<T>(mem, addr): the little-endian value of the
\* size / 8 bytes at index addr.
byte_at(mem, i) == IF i \in DOMAIN mem THEN mem[i] ELSE 0
read_mem(mem, addr, size) ==
    LET i == addr[1] * H16 + addr[2] IN
    CASE size = 8 -> <<0, byte_at(mem, i)>>
      [] size = 16 -> <<0, byte_at(mem, i) + 256 * byte_at(mem, i + 1)>>
      [] OTHER -> <<byte_at(mem, i + 2) + 256 * byte_at(mem, i + 3),
                    byte_at(mem, i) + 256 * byte_at(mem, i + 1)>>

\* HW::write_mem::<T>(mem, addr, value)
write_mem(mem, addr, size, value) ==
    LET i == addr[1] * H16 + addr[2]
        written == i..(i + (size \div 8) - 1) IN
    [k \in DOMAIN mem \cup written |->
        IF k \in written THEN bits(value, 8 * (k - i), 8) ELSE mem[k]]

\* HW::MAIN_MEM_MASK: the main memory is 4 MB.
MAIN_MEM_MASK == <<\h003F, \hFFFF>>

\* WRAMCNT::write(scheduler, 0, value): the two low bits of the byte give
\* all 32 KB of the shared WRAM to the ARM9, the second 16 KB, the first
\* 16 KB, or nothing.
WRAMCNT_write(value) ==
    CASE value % 4 = 0 -> [arm9_offset |-> <<0, 0>>, arm9_mask |-> <<0, \h7FFF>>]
      [] value % 4 = 1 -> [arm9_offset |-> <<0, \h4000>>, arm9_mask |-> <<0, \h3FFF>>]
      [] value % 4 = 2 -> [arm9_offset |-> <<0, 0>>, arm9_mask |-> <<0, \h3FFF>>]
      [] OTHER -> [arm9_offset |-> <<0, 0>>, arm9_mask |-> <<0, 0>>]

\* The address of WRAMCNT in arm9_write_io_register (arm9.rs 425).
WRAMCNT_ADDR == <<\h0400, \h0247>>

\* The regions whose memories the model holds, for reads and for writes.
ReadRegions == {"MainMem", "SharedWRAM", "GBARAM", "Unknown"}
WriteRegions == {"MainMem", "SharedWRAM", "GBAROM", "GBARAM", "BIOS", "Unknown"}

\* arm9_read::<T> (arm9.rs 11-50) on the hardware hw: the value returned,
\* or the panic.
arm9_read(hw, addr, size) ==
    LET region == from_addr(addr, hw.cp15) IN
    CASE region = "MainMem" -> Value(read_mem(hw.main_mem, and32(addr, MAIN_MEM_MASK), size))
      [] region = "SharedWRAM" /\ hw.wramcnt.arm9_mask = <<0, 0>> -> Value(<<0, 0>>)
      [] region = "SharedWRAM" ->
            Value(read_mem(hw.shared_wram,
                           add32(hw.wramcnt.arm9_offset,
                                 and32(addr, hw.wramcnt.arm9_mask)),
                           size))
      [] region = "GBARAM" -> Panic("not yet implemented")
      [] region = "Unknown" -> Value(<<0, 0>>)

\* arm9_write that also writes the shared WRAM when none of it is mapped
\* to the ARM9.
arm9_write_without_unmapped_arm(hw, addr, size, value) ==
    LET region == from_addr(addr, hw.cp15) IN
    CASE region = "MainMem" ->
            [panic |-> "none",
             hw |-> [hw EXCEPT !.main_mem =
                        write_mem(@, and32(addr, MAIN_MEM_MASK), size, value)]]
      [] region = "SharedWRAM" ->
            [panic |-> "none",
             hw |-> [hw EXCEPT !.shared_wram =
                        write_mem(@, and32(add32(hw.wramcnt.arm9_offset, addr),
                                           hw.wramcnt.arm9_mask),
                                  size, value)]]
      [] region = "IO" /\ addr = WRAMCNT_ADDR /\ size = 8 ->
            [panic |-> "none",
             hw |-> [hw EXCEPT !.wramcnt = WRAMCNT_write(bits(value, 0, 8))]]
      [] region = "GBAROM" -> [panic |-> "none", hw |-> hw]
      [] region = "GBARAM" -> [panic |-> "not yet implemented", hw |-> hw]
      [] region = "BIOS" -> [panic |-> "none", hw |-> hw]
      [] region = "Unknown" -> [panic |-> "none", hw |-> hw]

\* arm9_write::<T> (arm9.rs 52-99): the panic, if any, and the hardware
\* after the write.  The index of the shared-WRAM arm is
\* `self.wramcnt.arm9_offset + addr & self.wramcnt.arm9_mask`, in which `+`
\* binds tighter than `&`.  Of the IO arm (76-78) the write of the byte
\* WRAMCNT is kept, which HW::write_from_bytes hands to the arm 0x0400_0247
\* of arm9_write_io_register (425).
arm9_write(hw, addr, size, value) ==
    LET region == from_addr(addr, hw.cp15) IN
    CASE region = "MainMem" ->
            [panic |-> "none",
             hw |-> [hw EXCEPT !.main_mem =
                        write_mem(@, and32(addr, MAIN_MEM_MASK), size, value)]]
      [] region = "SharedWRAM" /\ hw.wramcnt.arm9_mask = <<0, 0>> ->
            [panic |-> "none", hw |-> hw]
      [] region = "SharedWRAM" ->
            [panic |-> "none",
             hw |-> [hw EXCEPT !.shared_wram =
                        write_mem(@, and32(add32(hw.wramcnt.arm9_offset, addr),
                                           hw.wramcnt.arm9_mask),
                                  size, value)]]
      [] region = "IO" /\ addr = WRAMCNT_ADDR /\ size = 8 ->
            [panic |-> "none",
             hw |-> [hw EXCEPT !.wramcnt = WRAMCNT_write(bits(value, 0, 8))]]
      [] region = "GBAROM" -> [panic |-> "none", hw |-> hw]
      [] region = "GBARAM" -> [panic |-> "not yet implemented", hw |-> hw]
      [] region = "BIOS" -> [panic |-> "none", hw |-> hw]
      [] region = "Unknown" -> [panic |-> "none", hw |-> hw]

\* The shared-WRAM control register: all 32 KB to the ARM9, the second
\* 16 KB, the first 16 KB, or nothing.
WramConfigs == {WRAMCNT_write(value) : value \in 0..3}

\* The control coprocessor with the tightly coupled memories off, and with
\* the instruction memory below 0x0200_0000 and the data memory at
\* 0x027C_0000.
Cp15Configs ==
    {[itcm_enabled |-> FALSE, itcm_end |-> <<0, 0>>,
      dtcm_enabled |-> FALSE, dtcm_base |-> <<0, 0>>, dtcm_end |-> <<0, 0>>],
     [itcm_enabled |-> TRUE, itcm_end |-> <<\h0200, 0>>,
      dtcm_enabled |-> TRUE, dtcm_base |-> <<\h027C, 0>>, dtcm_end |-> <<\h027C, \h4000>>]}

\* The addresses, widths and value the software accesses the bus with.
Addresses9 ==
    {<<\h0300, \h0000>>, <<\h0300, \h4004>>, <<\h037F, \h8001>>,    \* shared WRAM
     <<\h023F, \hFC80>>, <<\h027C, \h0000>>,                        \* main memory
     <<\h0000, \h0000>>, <<\h0B00, \h0000>>, <<\hFF00, \h0000>>,    \* unknown
     <<\h0800, \h0000>>, <<\h0A00, \h0000>>, <<\hFFFF, \h0000>>}    \* GBA slot, BIOS
Sizes9 == {8, 32}
WriteValue9 == <<\hA5C3, \h5A3C>>

\* The cartridge: its ROM and the headers it may carry.  The ARM9 binary
\* goes to the main memory, to the shared WRAM, over the byte at
\* 0x023F_FC80, is empty, runs past the end of the ROM, or ends past the
\* last address.
Rom9 == <<9, 8, 7, 6, 5, 4>>
Headers9 ==
    {[arm9_ram_addr |-> <<\h0200, \h0000>>, arm9_rom_offset |-> 2,
      arm9_size |-> <<0, 3>>,
      arm9_entry_addr |-> <<\h0200, \h0800>>],
     [arm9_ram_addr |-> <<\h0300, \h0000>>, arm9_rom_offset |-> 0,
      arm9_size |-> <<0, 2>>,
      arm9_entry_addr |-> <<\h0300, \h0000>>],
     [arm9_ram_addr |-> <<\h023F, \hFC7F>>, arm9_rom_offset |-> 1,
      arm9_size |-> <<0, 2>>,
      arm9_entry_addr |-> <<\h0200, \h0000>>],
     [arm9_ram_addr |-> <<\h0200, \h0000>>, arm9_rom_offset |-> 0,
      arm9_size |-> <<0, 0>>,
      arm9_entry_addr |-> <<\h0200, \h0000>>],
     [arm9_ram_addr |-> <<\h0200, \h0010>>, arm9_rom_offset |-> 5,
      arm9_size |-> <<0, 2>>,
      arm9_entry_addr |-> <<\h0200, \h0010>>],
     [arm9_ram_addr |-> <<\hFFFF, \hFFFF>>, arm9_rom_offset |-> 5,
      arm9_size |-> <<0, 2>>,
      arm9_entry_addr |-> <<\h0200, \h0000>>]}

\* The u32 sum start_addr + size of the range of init_arm9 (arm9.rs 114)
\* leaves 32 bits.
range_overflows(header) ==
    lt32(add32(header.arm9_ram_addr, header.arm9_size), header.arm9_ram_addr)

\* The loop of init_arm9 (arm9.rs 114-116) from its step i on, and the
\* write of 0x5 at 0x023F_FC80 after it (117), in a build with or without
\* overflow checks.  A sum start_addr + size that leaves 32 bits panics
\* with the checks before any write, and wraps without them to an end
\* below the start: the range is empty.  Otherwise the ROM byte
\* rom[rom_offset + i] is written at start_addr + i; an index past the end
\* of the ROM ends the loop with a panic.
RECURSIVE init_arm9_loop(_, _, _, _, _)
init_arm9_loop(hw, header, rom, i, checks) ==
    IF range_overflows(header) /\ checks
    THEN [panic |-> "attempt to add with overflow", hw |-> hw]
    ELSE IF range_overflows(header) \/ ~lt32(<<0, i>>, header.arm9_size)
    THEN arm9_write(hw, <<\h023F, \hFC80>>, 8, <<0, 5>>)
    ELSE IF header.arm9_rom_offset + i >= Len(rom)
    THEN [panic |-> "index out of bounds", hw |-> hw]
    ELSE IF arm9_write(hw, add32(header.arm9_ram_addr, <<0, i>>), 8,
                       <<0, rom[header.arm9_rom_offset + i + 1]>>).panic # "none"
    THEN arm9_write(hw, add32(header.arm9_ram_addr, <<0, i>>), 8,
                    <<0, rom[header.arm9_rom_offset + i + 1]>>)
    ELSE init_arm9_loop(
            arm9_write(hw, add32(header.arm9_ram_addr, <<0, i>>), 8,
                       <<0, rom[header.arm9_rom_offset + i + 1]>>).hw,
            header, rom, i + 1, checks)

MaxBusOps == 2      \* bus accesses in one run

InitBus ==
    /\ \E w \in WramConfigs, c \in Cp15Configs :
        hw9 = [main_mem |-> <<>>, shared_wram |-> <<>>, wramcnt |-> w, cp15 |-> c]
    /\ arm9_last = [op |-> "none"]
    /\ arm9_panic = "none"
    /\ arm9_ops = 0

\* The bus with no access made.
IdleBus ==
    /\ hw9 = [main_mem |-> <<>>, shared_wram |-> <<>>,
              wramcnt |-> [arm9_offset |-> <<0, 0>>, arm9_mask |-> <<0, 0>>],
              cp15 |-> [itcm_enabled |-> FALSE, itcm_end |-> <<0, 0>>,
                        dtcm_enabled |-> FALSE, dtcm_base |-> <<0, 0>>,
                        dtcm_end |-> <<0, 0>>]]
    /\ arm9_last = [op |-> "none"]
    /\ arm9_panic = "none"
    /\ arm9_ops = 0

\* What the observer keeps of an access when the next one is made.
brief(last) ==
    IF last.op = "none" THEN last
    ELSE [op |-> last.op, addr |-> last.addr, size |-> last.size, value |-> last.value]

\* The software reads `size` bits at addr.
bus_read(addr, size) ==
    /\ arm9_panic = "none"
    /\ arm9_ops < MaxBusOps
    /\ from_addr(addr, hw9.cp15) \in ReadRegions
    /\ size = 32 => addr[2] % 4 = 0
    /\ LET r == arm9_read(hw9, addr, size) IN
        /\ arm9_panic' = r.panic
        /\ arm9_last' = [op |-> "read", addr |-> addr, size |-> size, value |-> r.value,
                         before |-> hw9, prev |-> brief(arm9_last)]
    /\ arm9_ops' = arm9_ops + 1
    /\ UNCHANGED hw9

\* The software writes the low `size` bits of value at addr.
bus_write(addr, size, value) ==
    /\ arm9_panic = "none"
    /\ arm9_ops < MaxBusOps
    /\ \/ from_addr(addr, hw9.cp15) \in WriteRegions
       \/ from_addr(addr, hw9.cp15) = "IO" /\ addr = WRAMCNT_ADDR /\ size = 8
    /\ size = 32 => addr[2] % 4 = 0
    /\ LET w == arm9_write(hw9, addr, size, value) IN
        /\ arm9_panic' = w.panic
        /\ hw9' = w.hw
        /\ arm9_last' = [op |-> "write", addr |-> addr, size |-> size, value |-> value,
                         before |-> hw9, prev |-> brief(arm9_last)]
    /\ arm9_ops' = arm9_ops + 1

\* HW::init_arm9 (arm9.rs 110-119): the ARM9 binary of the cartridge is
\* copied byte by byte through arm9_write, then 0x5 is written at
\* 0x023F_FC80; the entry address is returned.  overflow_checks is the
\* build of the program.
init_arm9(header, rom) ==
    /\ arm9_panic = "none"
    /\ arm9_ops < MaxBusOps
    /\ LET w == init_arm9_loop(hw9, header, rom, 0, overflow_checks) IN
        /\ arm9_panic' = w.panic
        /\ hw9' = w.hw
        /\ arm9_last' = [op |-> "init", addr |-> header.arm9_ram_addr,
                         size |-> header.arm9_size, value |-> header.arm9_entry_addr,
                         before |-> hw9, prev |-> brief(arm9_last)]
    /\ arm9_ops' = arm9_ops + 1

NextBus ==
    \/ \E addr \in Addresses9, size \in Sizes9 : bus_read(addr, size)
    \/ \E addr \in Addresses9, size \in Sizes9 : bus_write(addr, size, WriteValue9)
    \/ \E value \in 0..3 : bus_write(WRAMCNT_ADDR, 8, <<0, value>>)
    \/ \E header \in Headers9 : init_arm9(header, Rom9)

\* The parts of the system a specification leaves alone.
IdleLut == lut_opcode = 0 /\ lut = <<>> /\ lut_panicked = FALSE

IdleArmState ==
    /\ arm7 = [regs |-> InitRegs(<<0, 0>>, Mode.SVC, FALSE, FALSE),
               instr_buffer |-> <<Slot(<<0, 0>>, <<0, 0>>), Slot(<<0, 0>>, <<0, 0>>)>>,
               next_access_type |-> "N"]
    /\ bus_mem = <<>>
    /\ bus_log = <<>>
    /\ arm7_panic = "none"
    /\ arm7_last = [op |-> "new"]
    /\ arm7_steps = 0

IdleArm == IdleArmState /\ overflow_checks = TRUE

InitHw ==
    /\ cycle = 0
    /\ event_queue = <<>>
    /\ \E r \in InitReloads :
        timers = [i \in 0..1 |-> [num \in 0..(NUM_TIMERS - 1) |->
                    IF i = 1 THEN [Timer_new EXCEPT !.reload = r] ELSE Timer_new]]
    /\ interrupts = [i \in 0..1 |-> {}]
    /\ io_writes = 0
    /\ fired = 0
    /\ cascade_obs = [num \in 0..(NUM_TIMERS - 1) |-> NoObs]
    /\ hw_panic = "none"

\* HW::arm9_write_io_register for a timer register.
arm9_write_io_register(addr, value) ==
    /\ hw_panic = "none"
    /\ ~events_due(event_queue, cycle)
    /\ io_writes < MaxIoWrites
    /\ cycle <= MaxCycle
    /\ io_writes' = io_writes + 1
    /\ \E w \in Timer_write(timers[1][timer_index(addr)], 1, timer_index(addr),
                            event_queue, cycle, addr % 4, value) :
        /\ hw_panic' = w.panic
        /\ timers' = [timers EXCEPT ![1][timer_index(addr)] = w.timer]
        /\ event_queue' = w.queue
        /\ cascade_obs' = [cascade_obs EXCEPT ![timer_index(addr)] =
                IF w.panic # "none" THEN @
                ELSE obs_after_write(timers[1][timer_index(addr)], w.timer, @)]
    /\ UNCHANGED <<cycle, interrupts, fired>>

\* HW::arm9_read_io_register for a timer register: the read changes no
\* state (Timer::read takes &self); it returns a byte or panics.
arm9_read_io_register(addr) ==
    /\ hw_panic = "none"
    /\ ~events_due(event_queue, cycle)
    /\ \E r \in Timer_read(timers[1][timer_index(addr)], cycle, addr % 4) :
        hw_panic' = r.panic
    /\ UNCHANGED <<cycle, event_queue, timers, interrupts, io_writes, fired, cascade_obs>>

\* The driving loop fires the next due event: the event leaves the queue and
\* its handler runs.
handle_events ==
    /\ hw_panic = "none"
    /\ events_due(event_queue, cycle)
    /\ fired < MaxFired
    /\ fired' = fired + 1
    /\ LET e == event_queue[next_event_index(event_queue)]
           hw == fire_event(timers, interrupts, event_queue, cycle, e) IN
        /\ timers' = hw.timers
        /\ interrupts' = hw.interrupts
        /\ event_queue' = hw.queue
        /\ cascade_obs' = obs_after_fire(cascade_obs, hw.log)
    /\ UNCHANGED <<cycle, io_writes, hw_panic>>

\* The driving loop advances the cycle counter by one cycle.
advance_cycle ==
    /\ hw_panic = "none"
    /\ ~events_due(event_queue, cycle)
    /\ cycle + 1 <= MaxCycle
    /\ cycle' = cycle + 1
    /\ UNCHANGED <<event_queue, timers, interrupts, io_writes, fired, cascade_obs,
                   hw_panic>>

\* The processor runs until the step that reaches the trigger of the next
\* pending event; the step ends `late` cycles after the trigger.
advance_to_event(late) ==
    /\ hw_panic = "none"
    /\ ~events_due(event_queue, cycle)
    /\ event_queue # <<>>
    /\ fired < MaxFired
    /\ cycle' = event_queue[next_event_index(event_queue)].cycle + late
    /\ UNCHANGED <<event_queue, timers, interrupts, io_writes, fired, cascade_obs,
                   hw_panic>>

NextTimers ==
    \/ \E addr \in TimerRegs : \E value \in IoBytes(addr) :
            arm9_write_io_register(addr, value)
    \/ \E addr \in TimerRegs : arm9_read_io_register(addr)
    \/ handle_events
    \/ advance_cycle
    \/ \E late \in 0..MaxLate : advance_to_event(late)

InitTimers == InitHw /\ IdleLut /\ IdleArm /\ IdleBus

SpecTimers == InitTimers /\ [][NextTimers /\ UNCHANGED <<lutvars, armvars, busvars>>]_vars

\* The hardware as constructed, with no timer programmed.
IdleHw ==
    /\ cycle = 0
    /\ event_queue = <<>>
    /\ timers = [i \in 0..1 |-> [num \in 0..(NUM_TIMERS - 1) |-> Timer_new]]
    /\ interrupts = [i \in 0..1 |-> {}]
    /\ io_writes = 0
    /\ fired = 0
    /\ cascade_obs = [num \in 0..(NUM_TIMERS - 1) |-> NoObs]
    /\ hw_panic = "none"

InitEngine == InitArm /\ IdleLut /\ IdleHw /\ IdleBus

SpecArm == InitEngine /\ [][NextArm /\ UNCHANGED <<lutvars, hwvars, busvars>>]_vars

\* The bus after construction, in a build with or without overflow checks.
InitArm9Bus == InitBus /\ IdleLut /\ IdleHw /\ IdleArmState /\ overflow_checks \in BOOLEAN

SpecArm9Bus == InitArm9Bus /\ [][NextBus /\ UNCHANGED <<lutvars, hwvars, armvars>>]_vars

(***************************************************************************)
(* The build of the decode table as a state machine.                       *)
(***************************************************************************)
InitLut ==
    /\ IdleHw /\ IdleArm /\ IdleBus
    /\ lut_opcode = 0
    /\ lut = [opcode \in 0..(LutSize - 1) |-> undefined_instr_arm]
    /\ lut_panicked = FALSE

\* One iteration of `for opcode in 0..4096`.
gen_lut ==
    /\ lut_opcode < LutSize
    /\ ~lut_panicked
    /\ LET skel == skeleton(lut_opcode) IN
       IF lut_falls_through(skel) /\ ~lut_else_assert(skel)
       THEN /\ lut_panicked' = TRUE
            /\ UNCHANGED <<lut_opcode, lut>>
       ELSE /\ lut' = [lut EXCEPT ![lut_opcode] = gen_lut_entry(lut_opcode)]
            /\ lut_opcode' = lut_opcode + 1
            /\ UNCHANGED lut_panicked

NextLut == gen_lut /\ UNCHANGED <<hwvars, armvars, busvars>>

SpecLut == InitLut /\ [][NextLut]_vars

(***************************************************************************)
(* Claims about the decode table.                                          *)
(***************************************************************************)
HandlerNames ==
    {"branch_and_exchange", "mul_mula", "mul_long", "single_data_swap",
     "halfword_and_signed_data_transfer", "psr_transfer", "data_proc",
     "single_data_transfer", "block_data_transfer", "branch_branch_with_link",
     "arm_software_interrupt", "coprocessor", "undefined_instr_arm"}

\* C1: every key written to the table has one handler, and the assertions
\* that handler makes on the bits the key fixes hold for the key's skeleton
\* (the instruction word with exactly the key's bits set).
C1_KeyMeetsHandlerAsserts ==
    \A k \in 0..(lut_opcode - 1) :
        /\ lut[k].fn \in HandlerNames
        /\ handler_asserts(lut[k], U32(skeleton(k)))

\* The precedence list of C2: <<mask, pattern, handler class>>, highest
\* precedence first.
C2_Rules == <<
    <<\b1111111100000000000011110000, \b0001001000000000000000010000, "branch_and_exchange">>,
    <<\b1111110000000000000011110000, \b0000000000000000000010010000, "mul_mula">>,
    <<\b1111100000000000000011110000, \b0000100000000000000010010000, "mul_long">>,
    <<\b1111100000000000111111110000, \b0001000000000000000010010000, "single_data_swap">>,
    <<\b1110000000000000000010010000, \b0000000000000000000010010000,
      "halfword_and_signed_data_transfer">>,
    <<\b1101100100000000000000000000, \b0001000000000000000000000000, "psr_transfer">>,
    <<\b1100000000000000000000000000, \b0000000000000000000000000000, "data_proc">>,
    <<\b1100000000000000000000000000, \b0100000000000000000000000000, "single_data_transfer">>,
    <<\b1110000000000000000000000000, \b1000000000000000000000000000, "block_data_transfer">>,
    <<\b1110000000000000000000000000, \b1010000000000000000000000000, "branch_branch_with_link">>,
    <<\b1111000000000000000000000000, \b1111000000000000000000000000, "arm_software_interrupt">>,
    <<\b1110000000000000000000000000, \b1100000000000000000000000000, "coprocessor">>,
    <<\b1111000000000000000000000000, \b1110000000000000000000000000, "coprocessor">> >>

C2_Matching(skel) ==
    {i \in 1..Len(C2_Rules) : BitAnd(skel, C2_Rules[i][1]) = C2_Rules[i][2]}

\* What C2 says key k holds: the class of the first matching rule, or the
\* undefined-instruction handler when no rule matches; `ok` is false when
\* no rule matches and the final assertion fails.
C2_Expected ==
    [k \in 0..(LutSize - 1) |->
        LET m == C2_Matching(skeleton(k)) IN
        IF m = {}
        THEN [fn |-> "undefined_instr_arm",
              ok |-> bits(U32(skeleton(k)), 25, 3) = 3 /\ bits(U32(skeleton(k)), 4, 1) = 1]
        ELSE [fn |-> C2_Rules[CHOOSE i \in m : \A j \in m : i <= j][3], ok |-> TRUE]]

\* C2: every key written holds the class of the first matching rule of the
\* precedence list; a key no rule matches holds the undefined-instruction
\* handler and satisfies the final assertion; the build never aborts.
C2_FirstMatchWins ==
    /\ ~lut_panicked
    /\ \A k \in 0..(lut_opcode - 1) :
        /\ lut[k].fn = C2_Expected[k].fn
        /\ C2_Expected[k].ok

\* Key 0x009 matches the multiply, the halfword-transfer and the
\* data-processing rules, and the table holds the multiply handler.
C2_Witness ==
    /\ lut_opcode > 9
    /\ Cardinality(C2_Matching(skeleton(9))) = 3
    /\ lut[9].fn = "mul_mula"

(***************************************************************************)
(* Claims about the timers.                                                *)
(***************************************************************************)
\* The positions in the queue of the pending overflow events of timer num.
pending(queue, i, num) ==
    {k \in 1..Len(queue) : queue[k].event = TimerOverflow(i, num)}

\* This step is a write of `value` to the control byte of ARM9 timer num
\* that did not panic.
control_write_step(num, value) ==
    /\ io_writes' = io_writes + 1
    /\ hw_panic' = "none"
    /\ \E w \in Timer_write(timers[1][num], 1, num, event_queue, cycle, 2, value) :
        /\ w.panic = "none"
        /\ timers' = [timers EXCEPT ![1][num] = w.timer]
        /\ event_queue' = w.queue

AllControlBytes == ControlBytes \cup {128, 196}

\* The start of a stopped regular timer: counter, start cycle and event.
C6_StartLatency ==
    \A num \in 0..(NUM_TIMERS - 1) : \A value \in AllControlBytes :
        LET t == timers[1][num]
            t2 == timers'[1][num]
            p == prescaler_of(t2)
            ttfc == p - ((cycle + 2) % p) IN
        (control_write_step(num, value) /\ ~t.cnt.start
            /\ t2.cnt.start /\ ~t2.cnt.count_up) =>
            /\ t2.counter = t2.reload
            /\ t2.start_cycle = cycle + 1
            /\ Cardinality(pending(event_queue', 1, num)) = 1
            /\ \A k \in pending(event_queue', 1, num) :
                    event_queue'[k].cycle = cycle + 1 + ttfc + p * (65535 - t2.reload)

\* A read of the counter of a started regular timer before its first clock
\* returns the value the counter was started with.
C6_ReadsBeforeFirstClock ==
    \A num \in 0..(NUM_TIMERS - 1) :
        LET t == timers[1][num] IN
        (t.cnt.start /\ ~t.cnt.count_up
            /\ cycle < t.start_cycle + t.time_till_first_clock) =>
            /\ Timer_read(t, cycle, 0) = {Value(t.counter % 256)}
            /\ Timer_read(t, cycle, 1) = {Value(t.counter \div 256)}

\* C6: a control write at cycle c that starts a stopped regular timer sets
\* the counter to the reload value and leaves exactly one overflow event
\* pending, with start_cycle = c + 1 and the trigger at
\* c + 1 + ttfc + prescaler * (0xFFFF - reload), where
\* ttfc = prescaler - ((c + 2) mod prescaler); every read before cycle
\* c + 1 + ttfc returns the reload value.
C6_StartedTimer == [][C6_StartLatency]_vars /\ []C6_ReadsBeforeFirstClock

\* C6, without the reads: the write itself behaves as described.
C6_StartLatencyHolds == [][C6_StartLatency]_vars

\* The derived counter of timer t steps past 0xFFFF at cycle x.
steps_past_ffff(t, x) ==
    /\ \A r \in calc_counter(t, x - 1) : r.panic = "none"
    /\ \E r \in calc_counter(t, x) : r.panic = "calc_counter: u16 add overflow"

\* C7: a control write to a started regular timer that leaves it started
\* and regular replaces the overflow event with one computed from the
\* derived counter at the write: the new event triggers at the cycle at
\* which that counter, continuing from its value, steps past 0xFFFF.
C7_RestartFromDerivedCounter ==
    [][\A num \in 0..(NUM_TIMERS - 1) : \A value \in AllControlBytes :
        LET t == timers[1][num]
            t2 == timers'[1][num] IN
        (control_write_step(num, value) /\ t.cnt.start /\ ~t.cnt.count_up
            /\ t2.cnt.start /\ ~t2.cnt.count_up) =>
            /\ Cardinality(pending(event_queue', 1, num)) = 1
            /\ \A k \in pending(event_queue', 1, num) :
                    steps_past_ffff(t2, event_queue'[k].cycle)]_vars

\* This step fires the next due event.
fire_step == fired' = fired + 1

\* The effects of firing the overflow event of a started regular timer at
\* its trigger cycle.
C8_OnTimeOverflowStep ==
    fire_step =>
        LET e == event_queue[next_event_index(event_queue)]
            i == e.event[2]
            n == e.event[3]
            t == timers[i][n]
            log == fire_event(timers, interrupts, event_queue, cycle, e).log IN
        (e.cycle = cycle /\ t.cnt.start /\ ~t.cnt.count_up) =>
            /\ timers'[i][n].counter = t.reload
            /\ t.cnt.irq => n \in interrupts'[i]
            /\ ~t.cnt.irq => (n \in interrupts'[i] <=> n \in interrupts[i])
            /\ (n < 3 /\ is_count_up(timers[i][n + 1])) =>
                    /\ occurrences(log, <<"clock", n + 1>>) = 1
                    /\ timers'[i][n + 1] = clock(timers[i][n + 1]).timer
            /\ (n < 3 /\ ~is_count_up(timers[i][n + 1])) =>
                    /\ occurrences(log, <<"clock", n + 1>>) = 0
                    /\ timers'[i][n + 1] = timers[i][n + 1]
            /\ Cardinality(pending(event_queue', i, n)) = 1
            /\ \A k \in pending(event_queue', i, n) :
                    event_queue'[k].cycle = e.cycle + prescaler_of(t) * (65536 - t.reload)

\* C8: when the overflow event of a started regular timer n fires at its
\* trigger cycle E, the counter is reset to the reload value, the firing
\* sets the timer's interrupt request bit iff its interrupt-enable flag is
\* set, a count-up timer n+1 is clocked exactly once, and one overflow event
\* for timer n is pending, at E + prescaler * (0x10000 - reload).
C8_OnTimeOverflow == [][C8_OnTimeOverflowStep]_vars

\* A timer with prescaler 64 and the interrupt enabled has just overflowed
\* on time, clocked its count-up neighbour and been rescheduled.
C8_Witness ==
    /\ fired >= 1
    /\ hw_panic = "none"
    /\ \E n \in 0..2 :
        LET t == timers[1][n] IN
        /\ t.cnt.start /\ ~t.cnt.count_up /\ t.cnt.irq
        /\ prescaler_of(t) = 64
        /\ t.start_cycle = cycle /\ t.time_till_first_clock = 64
        /\ n \in interrupts[1]
        /\ timers[1][n + 1].cnt.start /\ is_count_up(timers[1][n + 1])
        /\ cascade_obs[n + 1].clocks >= 1
        /\ \E k \in pending(event_queue, 1, n) :
                event_queue[k].cycle = cycle + 64 * (65536 - t.reload)

\* A running count-up timer has no event and its counter follows the
\* cascade clocks it has received since it was started.
C9_CountUpState ==
    \A i \in 1..(NUM_TIMERS - 1) :
        LET t == timers[1][i]
            obs == cascade_obs[i]
            period == 65536 - t.reload IN
        (t.cnt.start /\ is_count_up(t)) =>
            /\ pending(event_queue, 1, i) = {}
            /\ obs.reload # -1 =>
                    /\ obs.reload = t.reload
                    /\ t.counter = t.reload + (obs.clocks % period)
                    /\ obs.overflows = obs.clocks \div period

\* The steps of a count-up timer: its counter moves only on a cascade
\* clock, starting it copies the reload value, its overflow raises its
\* interrupt if enabled and clocks a count-up timer i+1, and a stopped
\* count-up timer ignores the clock.
C9_CountUpStep ==
    \A i \in 1..(NUM_TIMERS - 1) :
        LET t == timers[1][i]
            t2 == timers'[1][i]
            log == IF fire_step
                   THEN fire_event(timers, interrupts, event_queue, cycle,
                                   event_queue[next_event_index(event_queue)]).log
                   ELSE <<>> IN
        /\ (t.cnt.start /\ is_count_up(t) /\ t2.cnt.start /\ is_count_up(t2)
                /\ t2.counter # t.counter) =>
                /\ fire_step
                /\ occurrences(log, <<"clock", i>>) = 1
                /\ occurrences(log, <<"overflow", i - 1>>) = 1
        /\ (~t.cnt.start /\ t2.cnt.start /\ is_count_up(t2) /\ hw_panic' = "none") =>
                t2.counter = t2.reload
        /\ (fire_step /\ is_count_up(t) /\ occurrences(log, <<"overflow", i>>) > 0) =>
                /\ t.cnt.start /\ t.counter = 65535
                /\ occurrences(log, <<"overflow", i>>) = 1
                /\ t.cnt.irq => i \in interrupts'[1]
                /\ (i < 3 /\ is_count_up(timers[1][i + 1])) =>
                        occurrences(log, <<"clock", i + 1>>) = 1
        /\ (fire_step /\ is_count_up(t) /\ ~t.cnt.start) =>
                /\ t2 = t
                /\ occurrences(log, <<"overflow", i>>) = 0

\* C9: a started count-up timer i >= 1 never has a scheduled overflow
\* event; its counter changes only on a cascade clock from an overflow of
\* timer i-1; starting it copies the reload value; after N cascade clocks
\* the counter is reload + (N mod (0x10000 - reload)) and it has overflowed
\* on every (0x10000 - reload)-th clock, raising its interrupt if enabled and
\* clocking timer i+1; a stopped count-up timer ignores cascade clocks.
C9_CountUp == []C9_CountUpState /\ [][C9_CountUpStep]_vars

\* Timer 1 was started in count-up mode with reload 0xFFFE and the interrupt
\* enabled, has overflowed on its second clock, and has clocked timer 2.
C9_Witness ==
    /\ hw_panic = "none"
    /\ timers[1][1].cnt.start /\ is_count_up(timers[1][1]) /\ timers[1][1].cnt.irq
    /\ cascade_obs[1] = [reload |-> 65534, clocks |-> 2, overflows |-> 1]
    /\ 1 \in interrupts[1]
    /\ timers[1][2].cnt.start /\ is_count_up(timers[1][2])
    /\ cascade_obs[2].clocks = 1
    /\ timers[1][2].counter = 65535

(***************************************************************************)
(* The execution engine: claims.                                           *)
(***************************************************************************)
\* The accesses of the last operation that refilled the buffer, and its
\* memory transfers.
refills == SelectSeq(bus_log, LAMBDA a : a.by = "refill")
transfers == SelectSeq(bus_log, LAMBDA a : a.by = "data" /\ a.op # "internal")

\* The last step wrote pc: it refilled the buffer, or it wrote r15 back as
\* the base of a single data transfer.
wrote_pc ==
    \/ Len(refills) > 0
    \/ /\ arm7_last.executed
       /\ arm7_last.handler.fn = "single_data_transfer"
       /\ bits(arm7_last.instr, 16, 4) = 15

\* After the fill at entry point A and one step that does not write pc,
\* pc = A + 8.
C3_AfterFirstStep ==
    (arm7_last.op = "step" /\ arm7_steps = 1 /\ arm7_panic = "none" /\ ~wrote_pc)
        => arm7.regs.pc = add32(arm7_last.from, <<0, 8>>)

\* A handler that executes the instruction fetched from X sees pc = X + 8.
C3_PcAtHandlerEntry ==
    (arm7_last.op = "step" /\ arm7_last.executed)
        => arm7_last.pc = add32(arm7_last.from, <<0, 8>>)

\* C3: after the fill at a word-aligned entry point A and one step of an
\* instruction that does not write pc, pc = A + 8; and after any sequence of
\* refills and steps a handler that executes the instruction fetched from
\* X sees pc = X + 8 at its entry.
C3_PipelineOffset == C3_AfterFirstStep /\ C3_PcAtHandlerEntry

\* A step whose instruction failed its condition: the buffer shifts, pc
\* advances by 4, one sequential 32-bit prefetch is the only access, and
\* the registers other than pc, the status registers and memory stay.
C4_FailedConditionStep ==
    (arm7_steps' = arm7_steps + 1 /\ ~arm7_last'.executed) =>
        /\ arm7_panic' = "none"
        /\ arm7'.instr_buffer[1] = arm7.instr_buffer[2]
        /\ arm7'.regs.pc = add32(arm7.regs.pc, <<0, 4>>)
        /\ Len(bus_log') = 1
        /\ bus_log'[1].op = "read" /\ bus_log'[1].by = "prefetch"
        /\ bus_log'[1].size = 32 /\ bus_log'[1].access = "S"
        /\ arm7'.regs.r = arm7.regs.r
        /\ arm7'.regs.banked = arm7.regs.banked
        /\ arm7'.regs.cpsr = arm7.regs.cpsr
        /\ arm7'.regs.spsr = arm7.regs.spsr
        /\ bus_mem' = bus_mem

\* C4: when the condition field of the instruction at the head of the
\* buffer fails, no handler runs (a coprocessor or undefined encoding does
\* not abort): the buffer shifts by one slot, pc advances by exactly 4,
\* exactly one sequential 32-bit prefetch is issued, and the general
\* registers other than pc, the CPSR, the SPSRs and memory are unchanged.
C4_FailedCondition == [][C4_FailedConditionStep]_vars

\* A coprocessor encoding whose condition failed was stepped over.
C4_Witness ==
    /\ arm7_last.op = "step"
    /\ ~arm7_last.executed
    /\ arm7_last.handler.fn = "coprocessor"
    /\ arm7_panic = "none"

\* C5: on every refill of the buffer after a control-flow discontinuity, the
\* first of the two refill fetches is non-sequential and the second is
\* sequential.
C5_RefillNonSeqThenSeq ==
    (arm7_last.op = "step" /\ Len(refills) > 0) =>
        /\ Len(refills) = 2
        /\ refills[1].access = "N"
        /\ refills[2].access = "S"

\* C10: a block data transfer with an empty register list makes exactly one
\* memory transfer, at base + 0x40 when the up bit is set and at base - 0x40
\* when it is clear, and leaves the base register at that address.
C10_EmptyList ==
    (/\ arm7_last.op = "step"
     /\ arm7_last.executed
     /\ arm7_last.handler.fn = "block_data_transfer"
     /\ bits(arm7_last.instr, 0, 16) = 0) =>
        LET base_reg == bits(arm7_last.instr, 16, 4)
            base == get_reg_i(arm7_last.before, base_reg)
            adjusted == IF arm7_last.handler.args[2] THEN add32(base, <<0, 64>>)
                                                     ELSE sub32(base, <<0, 64>>)
        IN  /\ Len(transfers) = 1
            /\ transfers[1].addr = adjusted
            /\ get_reg_i(arm7.regs, base_reg) = adjusted

\* The registers of a register list, in ascending order.
reg_list(instr) ==
    LET listed == {k \in 0..15 : bits(instr, k, 1) = 1} IN
    [i \in 1..Cardinality(listed) |->
        CHOOSE k \in listed : Cardinality({j \in listed : j < k}) = i - 1]

\* The last step ran block_data_transfer on a non-empty list to its end.
block_transfer_done ==
    /\ arm7_last.op = "step"
    /\ arm7_last.executed
    /\ arm7_last.handler.fn = "block_data_transfer"
    /\ bits(arm7_last.instr, 0, 16) # 0
    /\ arm7_panic = "none"

\* The word-aligned base of the last block transfer, and the address of its
\* k-th transfer as the addressing mode defines it.
block_base == align4(get_reg_i(arm7_last.before, bits(arm7_last.instr, 16, 4)))
block_addr(k) ==
    LET P == arm7_last.handler.args[1]
        U == arm7_last.handler.args[2]
        n == Len(reg_list(arm7_last.instr))
        first == CASE U /\ ~P -> block_base
                   [] U /\ P -> add32(block_base, <<0, 4>>)
                   [] ~U /\ ~P -> add32(sub32(block_base, <<0, 4 * n>>), <<0, 4>>)
                   [] OTHER -> sub32(block_base, <<0, 4 * n>>)
    IN  add32(first, <<0, 4 * (k - 1)>>)

\* The addresses base - 4n .. base + 4n + 3 lie within the address space.
block_in_range ==
    LET n == Len(reg_list(arm7_last.instr)) IN
    IF arm7_last.handler.args[2]
    THEN ~lt32(add32(block_base, <<0, 4 * n + 3>>), block_base)
    ELSE ~lt32(block_base, <<0, 4 * n>>)

\* C11: a block data transfer with a non-empty list of n registers
\* transfers the registers in ascending register number at consecutive
\* ascending word addresses, from base (increment-after), base + 4
\* (increment-before), base - 4n + 4 (decrement-after) or base - 4n
\* (decrement-before), base being the base register rounded down to a word.
C11_AscendingOrder ==
    block_transfer_done =>
        LET rs == reg_list(arm7_last.instr)
            S == arm7_last.handler.args[3]
            W == arm7_last.handler.args[4]
            L == arm7_last.handler.args[5]
            base_reg == bits(arm7_last.instr, 16, 4)
        IN  /\ Len(transfers) = Len(rs)
            /\ \A k \in 1..Len(rs) :
                /\ transfers[k].addr = block_addr(k)
                /\ transfers[k].size = 32
                /\ transfers[k].op = (IF L THEN "read" ELSE "write")
                /\ (L /\ ~S /\ rs[k] \notin {15, base_reg})
                    => get_reg_i(arm7.regs, rs[k]) = mem_word(bus_mem, block_addr(k))
                /\ (~L /\ ~S /\ rs[k] # 15 /\ ~(W /\ rs[k] = base_reg))
                    => mem_word(bus_mem, block_addr(k)) = get_reg_i(arm7_last.before, rs[k])

\* The last step ran a block transfer of two registers in the given mode.
block_ran(P, U, L) ==
    /\ block_transfer_done /\ block_in_range
    /\ Len(reg_list(arm7_last.instr)) = 2
    /\ arm7_last.handler.args[1] = P
    /\ arm7_last.handler.args[2] = U
    /\ arm7_last.handler.args[5] = L

\* An increment-before store of two registers with distinct values ran.
C11_Witness ==
    /\ block_ran(TRUE, TRUE, FALSE)
    /\ mem_word(bus_mem, block_addr(1)) # mem_word(bus_mem, block_addr(2))

\* The last step ran a block load with the force-user bit and r15 listed.
block_load_pc_forced ==
    /\ block_transfer_done
    /\ arm7_last.handler.args[3]
    /\ arm7_last.handler.args[5]
    /\ bits(arm7_last.instr, 15, 1) = 1

\* The registers below r15 that the last block load lists hold the loaded
\* words in the bank of the mode the instruction started in.
C12_NoUserBank ==
    block_load_pc_forced =>
        LET rs == reg_list(arm7_last.instr)
            in_mode == set_mode(arm7.regs, get_mode(arm7_last.before)) IN
        \A k \in 1..Len(rs) :
            rs[k] \notin {15, bits(arm7_last.instr, 16, 4)}
                => get_reg_i(in_mode, rs[k]) = mem_word(bus_mem, block_addr(k))

\* The refill after the load of r15 starts at the loaded word (the status
\* is restored once pc holds it).
C12_PcLoadedFirst ==
    block_load_pc_forced =>
        /\ Len(refills) = 2
        /\ refills[1].addr = align4(mem_word(bus_mem, block_addr(Len(transfers))))

\* C12: after a block load with the force-user bit set and r15 in the list
\* the listed registers were loaded in the bank of the current mode, the
\* status was restored after pc was loaded, and the CPSR, mode field
\* included, equals the SPSR the instruction restored.
C12_StatusRestored ==
    /\ C12_NoUserBank
    /\ C12_PcLoadedFirst
    /\ block_load_pc_forced => arm7.regs.cpsr = get_spsr(arm7_last.before)

\* C13: a block load with write-back whose list contains the base register
\* leaves in the base register the word loaded for it; a store with
\* write-back, or a load whose list does not contain the base, leaves the
\* final address, the base register's value plus or minus 4n.
C13_BaseWriteBack ==
    (block_transfer_done /\ arm7_last.handler.args[4]) =>
        LET rs == reg_list(arm7_last.instr)
            base_reg == bits(arm7_last.instr, 16, 4)
            before == get_reg_i(arm7_last.before, base_reg)
            after == get_reg_i(arm7.regs, base_reg)
        IN  IF arm7_last.handler.args[5] /\ bits(arm7_last.instr, base_reg, 1) = 1
            THEN \E k \in 1..Len(rs) :
                    /\ rs[k] = base_reg
                    /\ after = mem_word(bus_mem, block_addr(k))
            ELSE after = IF arm7_last.handler.args[2]
                         THEN add32(before, <<0, 4 * Len(rs)>>)
                         ELSE sub32(before, <<0, 4 * Len(rs)>>)

\* The last block transfer ran in the user bank: the force-user bit is set
\* and the transfer is not a load of r15 (arm.rs 480-482).
block_in_user_bank == arm7_last.handler.args[3] /\ ~block_load_pc_forced

\* The registers `regs` as the mode the last block transfer ran in sees
\* them.
in_transfer_bank(regs) ==
    IF block_in_user_bank THEN set_mode(regs, Mode.USR) ELSE regs

\* C13, amended: the base is read in the bank of the executing mode, and
\* the loaded word or the final address, that base plus or minus 4n, ends
\* in the register of the base's number in the bank the transfer ran in;
\* when that is the user bank and the executing mode banks the base, the
\* executing mode's base register is left as it was.
C13_BaseWriteBackInBank ==
    (block_transfer_done /\ arm7_last.handler.args[4]) =>
        LET rs == reg_list(arm7_last.instr)
            base_reg == bits(arm7_last.instr, 16, 4)
            before == get_reg_i(arm7_last.before, base_reg)
            after == get_reg_i(in_transfer_bank(arm7.regs), base_reg)
        IN  /\ IF arm7_last.handler.args[5] /\ bits(arm7_last.instr, base_reg, 1) = 1
               THEN \E k \in 1..Len(rs) :
                       /\ rs[k] = base_reg
                       /\ after = mem_word(bus_mem, block_addr(k))
               ELSE after = IF arm7_last.handler.args[2]
                            THEN add32(before, <<0, 4 * Len(rs)>>)
                            ELSE sub32(before, <<0, 4 * Len(rs)>>)
            /\ (block_in_user_bank /\ bank_of(get_mode(arm7_last.before), base_reg) # 0)
                => get_reg_i(arm7.regs, base_reg) = before

\* A store with write-back and the force-user bit ran in a mode that banks
\* the base: the final address is in the user bank's register, and the
\* base register of the executing mode is as before.
C13_WitnessUserBank ==
    /\ block_transfer_done
    /\ arm7_last.handler.args[4]
    /\ ~arm7_last.handler.args[5]
    /\ block_in_user_bank
    /\ bank_of(get_mode(arm7_last.before), bits(arm7_last.instr, 16, 4)) # 0
    /\ get_reg_i(arm7.regs, bits(arm7_last.instr, 16, 4))
         # get_reg_i(set_mode(arm7.regs, Mode.USR), bits(arm7_last.instr, 16, 4))

\* A load with write-back of a list holding the base ran, and the word
\* loaded for the base is not the final address.
C13_Witness ==
    /\ block_ran(FALSE, TRUE, TRUE)
    /\ arm7_last.handler.args[4]
    /\ bits(arm7_last.instr, bits(arm7_last.instr, 16, 4), 1) = 1
    /\ get_reg_i(arm7.regs, bits(arm7_last.instr, 16, 4))
         # add32(get_reg_i(arm7_last.before, bits(arm7_last.instr, 16, 4)), <<0, 8>>)

\* The last step ran a data-processing instruction with the set-flags bit
\* and r15 as destination.
status_return ==
    /\ arm7_last.op = "step"
    /\ arm7_last.executed
    /\ arm7_last.handler.fn = "data_proc"
    /\ arm7_last.handler.args[2]
    /\ bits(arm7_last.instr, 12, 4) = 15
    /\ arm7_panic = "none"

\* The result of the last instruction when it is MOV Rd, Rm or
\* SUB Rd, Rn, Rm with an unshifted register, or SUB Rd, Rn, #imm8; r15 is
\* not an operand.
plain_result ==
    LET op1 == get_reg_i(arm7_last.before, bits(arm7_last.instr, 16, 4))
        op2 == IF arm7_last.handler.args[1] THEN <<0, bits(arm7_last.instr, 0, 8)>>
               ELSE get_reg_i(arm7_last.before, bits(arm7_last.instr, 0, 4))
    IN  IF bits(arm7_last.instr, 21, 4) = 13 THEN op2 ELSE sub32(op1, op2)
is_plain ==
    /\ bits(arm7_last.instr, 21, 4) \in {2, 13}
    /\ bits(arm7_last.instr, 4, 8) = 0 \/ arm7_last.handler.args[1]
    /\ arm7_last.handler.args[1] => bits(arm7_last.instr, 8, 4) = 0

\* C14: a data-processing instruction with the set-flags bit and r15 as
\* destination leaves the CPSR equal to the SPSR the current mode had
\* before the instruction (no flag is written from the result, the shifter
\* or the arithmetic); when the opcode writes its result the buffer is
\* refilled from the result in the width the restored T bit selects.
C14_StatusReturn ==
    status_return =>
        /\ arm7.regs.cpsr = get_spsr(arm7_last.before)
        /\ IF BitAnd(bits(arm7_last.instr, 21, 4), 12) # 8
           THEN /\ Len(refills) = 2
                /\ \A k \in 1..2 :
                    refills[k].size = IF get_t(arm7.regs) THEN 16 ELSE 32
                /\ is_plain =>
                    refills[1].addr = IF get_t(arm7.regs) THEN align2(plain_result)
                                      ELSE align4(plain_result)
           ELSE /\ refills = <<>>
                /\ arm7.regs.pc = add32(arm7_last.before.pc, <<0, 4>>)

\* SUBS pc, lr, lr ran in supervisor mode with T set in the SPSR: the
\* result is zero and the restored status has Z clear.
C14_Witness ==
    /\ status_return
    /\ is_plain
    /\ plain_result = <<0, 0>>
    /\ get_mode(arm7_last.before) = Mode.SVC
    /\ get_t(arm7.regs)
    /\ ~get_z(arm7.regs)
    /\ arm7.regs.cpsr # arm7_last.before.cpsr

\* The last step ran MOV or ADD with the second operand shifted left by a
\* register, from the address X = arm7_last.from with pc = X + 8 at the
\* entry of the handler.
shift_by_reg_step ==
    /\ arm7_last.op = "step"
    /\ arm7_last.executed
    /\ arm7_last.handler.fn = "data_proc"
    /\ ~arm7_last.handler.args[1]
    /\ bits(arm7_last.instr, 4, 1) = 1
    /\ arm7_last.pc = add32(arm7_last.from, <<0, 8>>)
    /\ arm7_panic = "none"

\* Register i as the instruction at X reads it when r15 reads as X + 12.
operand_12(i) ==
    IF i = 15 THEN add32(arm7_last.from, <<0, 12>>) ELSE get_reg_i(arm7_last.before, i)

transfer_done ==
    /\ arm7_last.op = "step"
    /\ arm7_last.executed
    /\ arm7_last.handler.fn \in {"single_data_transfer",
                                 "halfword_and_signed_data_transfer"}
    /\ arm7_panic = "none"

\* The flags of the last transfer, whose positions among the parameters of
\* the handler differ between the two families.
is_single == arm7_last.handler.fn = "single_data_transfer"
transfer_P == arm7_last.handler.args[IF is_single THEN 2 ELSE 1]
transfer_U == arm7_last.handler.args[IF is_single THEN 3 ELSE 2]
transfer_W == arm7_last.handler.args[IF is_single THEN 5 ELSE 4]
transfer_L == arm7_last.handler.args[IF is_single THEN 6 ELSE 5]

\* The offset of the last transfer (an immediate or an unshifted register)
\* and the address it transfers at; a base of r15 reads as the pc the
\* handler was entered with.
transfer_offset ==
    IF is_single
    THEN IF arm7_last.handler.args[1]
         THEN get_reg_i(arm7_last.before, bits(arm7_last.instr, 0, 4))
         ELSE <<0, bits(arm7_last.instr, 0, 12)>>
    ELSE IF arm7_last.handler.args[3]
         THEN <<0, bits(arm7_last.instr, 8, 4) * 16 + bits(arm7_last.instr, 0, 4)>>
         ELSE get_reg_i(arm7_last.before, bits(arm7_last.instr, 0, 4))
transfer_base ==
    IF bits(arm7_last.instr, 16, 4) = 15 THEN arm7_last.pc
    ELSE get_reg_i(arm7_last.before, bits(arm7_last.instr, 16, 4))
transfer_indexed ==
    IF transfer_U THEN add32(transfer_base, transfer_offset)
    ELSE sub32(transfer_base, transfer_offset)
transfer_addr == IF transfer_P THEN transfer_indexed ELSE transfer_base

\* What a load of the last transfer's kind yields at an address aligned
\* to its size: the word, the byte or the halfword there, zero- or
\* sign-extended.
aligned_load ==
    IF is_single
    THEN IF arm7_last.handler.args[4] THEN mem_value(bus_mem, 8, transfer_addr)
         ELSE mem_word(bus_mem, transfer_addr)
    ELSE CASE ~arm7_last.handler.args[6] -> mem_value(bus_mem, 16, transfer_addr)
           [] ~arm7_last.handler.args[7] ->
                sign_extend(mem_value(bus_mem, 8, transfer_addr), 8)
           [] OTHER -> sign_extend(mem_value(bus_mem, 16, transfer_addr), 16)
is_aligned ==
    IF is_single
    THEN arm7_last.handler.args[4] \/ transfer_addr[2] % 4 = 0
    ELSE (arm7_last.handler.args[6] /\ ~arm7_last.handler.args[7])
            \/ transfer_addr[2] % 2 = 0

\* C16: a load of the single or of the halfword and signed family whose
\* destination is its base register leaves the loaded value in the
\* register, post-indexed or pre-indexed with write-back: the base is not
\* written back.
C16_LoadIntoBase ==
    (/\ transfer_done
     /\ transfer_L
     /\ bits(arm7_last.instr, 12, 4) = bits(arm7_last.instr, 16, 4)
     /\ bits(arm7_last.instr, 12, 4) # 15
     /\ is_aligned) =>
        get_reg_i(arm7.regs, bits(arm7_last.instr, 12, 4)) = aligned_load

\* A halfword load with pre-indexing and write-back into its own base ran,
\* and the loaded value is not the indexed address.
C16_Witness ==
    /\ transfer_done
    /\ ~is_single
    /\ transfer_L /\ transfer_P /\ transfer_W
    /\ bits(arm7_last.instr, 12, 4) = bits(arm7_last.instr, 16, 4)
    /\ is_aligned
    /\ aligned_load # transfer_indexed

\* The last step ran a store of r15 by the given handler, from the address
\* X = arm7_last.from with pc = X + 8 at the entry of the handler.
stored_pc(fn) ==
    /\ arm7_last.op = "step"
    /\ arm7_last.executed
    /\ arm7_last.handler.fn = fn
    /\ arm7_panic = "none"
    /\ arm7_last.pc = add32(arm7_last.from, <<0, 8>>)
    /\ IF fn = "block_data_transfer"
       THEN ~arm7_last.handler.args[5]
            /\ (bits(arm7_last.instr, 15, 1) = 1 \/ bits(arm7_last.instr, 0, 16) = 0)
       ELSE ~transfer_L /\ bits(arm7_last.instr, 12, 4) = 15

\* The last transfer of the step left X + 12, cut to the size of the
\* transfer, at its address.
holds_pc_plus_4 ==
    LET t == transfers[Len(transfers)]
        value == add32(arm7_last.from, <<0, 12>>)
    IN  mem_value(bus_mem, t.size, t.addr)
            = CASE t.size = 8 -> <<0, value[2] % 256>>
                [] t.size = 16 -> <<0, value[2]>>
                [] OTHER -> value

\* Stores of r15 by single_data_transfer (word and byte) and by
\* block_data_transfer write pc + 4.
C17_SingleAndBlock ==
    (stored_pc("single_data_transfer") \/ stored_pc("block_data_transfer"))
        => holds_pc_plus_4

\* C17: a store whose source is r15, in the single (word and byte), the
\* halfword and the block family, writes pc + 4, the address of the store
\* instruction plus 12.
C17_StoredPc ==
    (\/ stored_pc("single_data_transfer")
     \/ stored_pc("halfword_and_signed_data_transfer")
     \/ stored_pc("block_data_transfer"))
        => holds_pc_plus_4

\* The last step ran a word load (LDR with an immediate or an unshifted
\* register offset) or a word swap whose destination is not r15.
word_load ==
    /\ arm7_last.op = "step"
    /\ arm7_last.executed
    /\ bits(arm7_last.instr, 12, 4) # 15
    /\ \/ /\ is_single
          /\ transfer_L
          /\ ~arm7_last.handler.args[4]
          /\ arm7_last.handler.args[1] =>
                bits(arm7_last.instr, 4, 8) = 0 /\ bits(arm7_last.instr, 0, 4) # 15
          /\ ~transfer_P => bits(arm7_last.instr, 21, 1) = 0
       \/ /\ arm7_last.handler.fn = "single_data_swap"
          /\ ~arm7_last.handler.args[1]

\* The address the word load reads at.
word_load_addr == IF is_single THEN transfer_addr ELSE transfer_base

\* C18: a 32-bit load (LDR, and the read of a word SWP) at an address
\* whose low two bits are k makes one read, of the word at the address
\* rounded down to a multiple of 4, and yields that word rotated right by
\* 8 k bits; it does not fault.
C18_RotatedLoad ==
    word_load =>
        /\ arm7_panic = "none"
        /\ Len(SelectSeq(transfers, LAMBDA a : a.op = "read")) = 1
        /\ transfers[1].op = "read"
        /\ transfers[1].size = 32
        /\ transfers[1].addr = align4(word_load_addr)
        /\ get_reg_i(arm7.regs, bits(arm7_last.instr, 12, 4))
            = rotate_right(mem_word(arm7_last.mem, word_load_addr),
                           8 * (word_load_addr[2] % 4))

\* A word swap at an address with k = 1 ran on a word whose four bytes
\* differ.
C18_Witness ==
    /\ word_load
    /\ ~is_single
    /\ word_load_addr[2] % 4 = 1
    /\ mem_word(arm7_last.mem, word_load_addr) = DataWords[2]
    /\ get_reg_i(arm7.regs, 1) = <<\h2187, \h6543>>

\* The last step ran a multiply to its end.
multiplied ==
    /\ arm7_last.op = "step"
    /\ arm7_last.executed
    /\ arm7_last.handler.fn = "mul_mula"
    /\ arm7_panic = "none"

\* The product of the two factors of the last multiply, and the internal
\* cycles its step charged beyond those of the multiplier.
product ==
    mul32(get_reg_i(arm7_last.before, bits(arm7_last.instr, 8, 4)),
          get_reg_i(arm7_last.before, bits(arm7_last.instr, 0, 4)))
extra_internal ==
    Len(SelectSeq(bus_log, LAMBDA a : a.op = "internal" /\ a.by = "data"))

\* The multiply-accumulate charges one internal cycle beyond the
\* multiplier's, the multiply none.
C19_ExtraCycle ==
    multiplied => extra_internal = IF arm7_last.handler.args[1] THEN 1 ELSE 0

\* C19 in the words of the specification: after a multiply-accumulate the destination register
\* holds the product plus the value the destination register had before
\* the instruction, modulo 2^32, and the step charged one more internal
\* cycle than the multiply of the same operands.
C19_AccumulatesDestination ==
    (multiplied /\ arm7_last.handler.args[1]) =>
        /\ get_reg_i(arm7.regs, bits(arm7_last.instr, 16, 4))
            = add32(product, get_reg_i(arm7_last.before, bits(arm7_last.instr, 16, 4)))
        /\ extra_internal = 1

\* C19 for the register the code accumulates: after a multiply-accumulate the destination register
\* holds the product plus the value that the accumulate register, the one
\* named by bits 15..12 of the instruction, had before the instruction,
\* modulo 2^32, and the step charged one more internal cycle than the
\* multiply of the same operands.
C19_AccumulatesOperand ==
    /\ C19_ExtraCycle
    /\ (multiplied /\ arm7_last.handler.args[1]) =>
        get_reg_i(arm7.regs, bits(arm7_last.instr, 16, 4))
            = add32(product, get_reg_i(arm7_last.before, bits(arm7_last.instr, 12, 4)))

\* MLA r1, r2, r0, r3 ran: the sum wraps and the accumulate register is
\* not the destination.
C19_Witness ==
    /\ multiplied
    /\ arm7_last.handler.args[1]
    /\ bits(arm7_last.instr, 12, 4) # bits(arm7_last.instr, 16, 4)
    /\ get_reg_i(arm7.regs, 1) = <<\h0200, \h00E0>>
    /\ Len(SelectSeq(bus_log, LAMBDA a : a.op = "internal")) = 5

\* The last step ran a status register transfer to its end; a transfer of
\* the SPSR ran in a mode that has one.
status_transfer ==
    /\ arm7_last.op = "step"
    /\ arm7_last.executed
    /\ arm7_last.handler.fn = "psr_transfer"
    /\ arm7_panic = "none"
    /\ arm7_last.handler.args[2] => get_mode(arm7_last.before) \in BankedModes

\* The status register the last transfer names, before and after the step,
\* and the operand of a move to it.
status_before ==
    IF arm7_last.handler.args[2] THEN arm7_last.before.spsr[get_mode(arm7_last.before)]
    ELSE arm7_last.before.cpsr
status_after ==
    IF arm7_last.handler.args[2] THEN arm7.regs.spsr[get_mode(arm7_last.before)]
    ELSE arm7.regs.cpsr
status_operand ==
    IF arm7_last.handler.args[1]
    THEN rotate_right(<<0, bits(arm7_last.instr, 0, 8)>>, 2 * bits(arm7_last.instr, 8, 4))
    ELSE get_reg_i(arm7_last.before, bits(arm7_last.instr, 0, 4))

\* The status registers other than the one the last transfer names are as
\* they were before the step.
other_status_unchanged ==
    /\ arm7_last.handler.args[2] => arm7.regs.cpsr = arm7_last.before.cpsr
    /\ \A b \in BankedModes :
        ~(arm7_last.handler.args[2] /\ b = get_mode(arm7_last.before))
            => arm7.regs.spsr[b] = arm7_last.before.spsr[b]

\* C20: a move to a status register changes exactly the bytes that bits 19
\* (flags), 18 (status), 17 (extension) and 16 (control) of the
\* instruction select, taking them from the operand, and in user mode the
\* control byte is never changed; a move from a status register copies its
\* 32 bits into the destination and changes no status register.
C20_StatusTransfer ==
    status_transfer =>
        IF arm7_last.handler.args[3]
        THEN /\ \A b \in 0..3 :
                  bits(status_after, 8 * b, 8)
                    = IF /\ bits(arm7_last.instr, 16 + b, 1) = 1
                         /\ ~(b = 0 /\ get_mode(arm7_last.before) = Mode.USR)
                      THEN bits(status_operand, 8 * b, 8)
                      ELSE bits(status_before, 8 * b, 8)
             /\ other_status_unchanged
             /\ arm7.regs.r = arm7_last.before.r
             /\ arm7.regs.banked = arm7_last.before.banked
        ELSE /\ get_reg_i(arm7.regs, bits(arm7_last.instr, 12, 4)) = status_before
             /\ arm7.regs.cpsr = arm7_last.before.cpsr
             /\ arm7.regs.spsr = arm7_last.before.spsr

\* MSR CPSR_fsxc, #0x1F ran in user mode: the three upper bytes changed
\* and the control byte did not, although the operand's differs.
C20_Witness ==
    /\ status_transfer
    /\ arm7_last.handler.args[3]
    /\ bits(arm7_last.instr, 16, 4) = 15
    /\ get_mode(arm7_last.before) = Mode.USR
    /\ bits(status_operand, 0, 8) # bits(status_before, 0, 8)
    /\ status_after # status_before

\* The last step ran branch_branch_with_link.
branched ==
    /\ arm7_last.op = "step"
    /\ arm7_last.executed
    /\ arm7_last.handler.fn = "branch_branch_with_link"

\* base + 4 * signext24(offset) modulo 2^32 for the branch of the last
\* step, computed on integers.
branch_target(base) ==
    LET o == bits(arm7_last.instr, 16, 8) * 65536 + bits(arm7_last.instr, 0, 16)
        s == 4 * (IF o >= 8388608 THEN o - 16777216 ELSE o)
    IN  add32(base, <<(s \div 65536) % 65536, s % 65536>>)

\* The branch of the last step went to target and, with link, left link
\* in register 14 of the current mode.
branch_done(target, link) ==
    /\ arm7_panic = "none"
    /\ target[2] % 4 = 0
    /\ Len(refills) = 2
    /\ refills[1].addr = target
    /\ arm7.instr_buffer[1] = Slot(mem_value(bus_mem, 32, target), target)
    /\ arm7.instr_buffer[2].from = add32(target, <<0, 4>>)
    /\ arm7.regs.pc = add32(target, <<0, 4>>)
    /\ arm7.regs.cpsr = arm7_last.before.cpsr
    /\ IF arm7_last.handler.args[1]
       THEN get_reg_i(arm7.regs, 14) = link
       ELSE /\ arm7.regs.r = arm7_last.before.r
            /\ arm7.regs.banked = arm7_last.before.banked

\* C21: a branch at address X sets the program counter to
\* X + 8 + 4 * signext24(offset) modulo 2^32, a word-aligned address, and
\* refills the buffer from there (the two slots hold the words at the
\* target and at the target + 4, and pc is left at the target + 4); the
\* branch with link also sets register 14 of the current mode to X + 4,
\* and the plain branch leaves register 14 as it was.
C21_Branch ==
    branched => branch_done(branch_target(add32(arm7_last.from, <<0, 8>>)),
                            add32(arm7_last.from, <<0, 4>>))

\* The same with pc as the handler finds it in place of X + 8: the target
\* is pc + 4 * signext24(offset) and the link value pc - 4.
C21_BranchFromPc ==
    branched => branch_done(branch_target(arm7_last.pc), sub32(arm7_last.pc, <<0, 4>>))

\* A branch with link ran with a negative offset.
C21_Witness ==
    /\ branched
    /\ arm7_last.handler.args[1]
    /\ bits(arm7_last.instr, 23, 1) = 1
    /\ get_reg_i(arm7.regs, 14) # get_reg_i(arm7_last.before, 14)

\* The last step ran branch_and_exchange; exchange_value is the value V of
\* the register it names, as the handler reads it.
exchanged ==
    /\ arm7_last.op = "step"
    /\ arm7_last.executed
    /\ arm7_last.handler.fn = "branch_and_exchange"
exchange_value ==
    IF bits(arm7_last.instr, 0, 4) = 15 THEN arm7_last.pc
    ELSE get_reg_i(arm7_last.before, bits(arm7_last.instr, 0, 4))

\* The last step made one non-sequential 32-bit prefetch and then refilled
\* the buffer with two fetches of the given width, starting at target.
prefetch_then_refill(size, target, width) ==
    /\ Len(bus_log) = 3
    /\ bus_log[1].by = "prefetch" /\ bus_log[1].access = "N" /\ bus_log[1].size = 32
    /\ bus_log[2].by = "refill" /\ bus_log[2].size = size /\ bus_log[2].addr = target
    /\ bus_log[3].by = "refill" /\ bus_log[3].size = size
    /\ arm7.instr_buffer[1] = Slot(mem_value(bus_mem, size, target), target)
    /\ arm7.instr_buffer[2].from = add32(target, <<0, width>>)
    /\ arm7.regs.pc = add32(target, <<0, width>>)

\* C22: branch-and-exchange to a register value V: if V is odd, the T flag
\* is set and the 16-bit buffer is refilled from V - 1; if V is even, the T
\* flag is unchanged and the 32-bit buffer is refilled from V rounded down
\* to a multiple of 4; in both cases one non-sequential prefetch precedes
\* the refill and the refill always happens.
C22_BranchAndExchange ==
    exchanged =>
        /\ arm7_panic = "none"
        /\ arm7.regs.r = arm7_last.before.r
        /\ arm7.regs.banked = arm7_last.before.banked
        /\ arm7.regs.spsr = arm7_last.before.spsr
        /\ IF exchange_value[2] % 2 = 1
           THEN /\ get_t(arm7.regs)
                /\ arm7.regs.cpsr = set_t(arm7_last.before, TRUE).cpsr
                /\ prefetch_then_refill(16, sub32(exchange_value, <<0, 1>>), 2)
           ELSE /\ arm7.regs.cpsr = arm7_last.before.cpsr
                /\ prefetch_then_refill(32, align4(exchange_value), 4)

\* An exchange to an odd address left the T flag set and refilled the
\* 16-bit buffer.
C22_Witness ==
    /\ exchanged
    /\ exchange_value[2] % 2 = 1
    /\ get_t(arm7.regs)
    /\ ~get_t(arm7_last.before)
    /\ bus_log[2].size = 16

\* An exchange to an even address that is no multiple of 4 refilled from
\* the address rounded down.
C22_RoundedDown ==
    /\ exchanged
    /\ exchange_value[2] % 4 = 2
    /\ arm7.regs.pc = add32(align4(exchange_value), <<0, 4>>)

\* The last step ran single_data_swap to its end.
swapped ==
    /\ arm7_last.op = "step"
    /\ arm7_last.executed
    /\ arm7_last.handler.fn = "single_data_swap"
    /\ arm7_panic = "none"

\* The value register i held when the handler of the last step started.
value_before(i) == IF i = 15 THEN arm7_last.pc ELSE get_reg_i(arm7_last.before, i)

\* The base address, the source value and the width of the last swap, and
\* the word at the base before and after the step.
swap_base == value_before(bits(arm7_last.instr, 16, 4))
swap_source == value_before(bits(arm7_last.instr, 0, 4))
swap_size == IF arm7_last.handler.args[1] THEN 8 ELSE 32
swap_lane == 8 * (swap_base[2] % 4)
swap_word_before == mem_word(arm7_last.mem, swap_base)
swap_word_after == mem_word(bus_mem, swap_base)

\* C23: a single data swap with base Rn, source Rm and destination Rd
\* leaves in Rd the value the memory held before the instruction (the byte
\* zero-extended, or the word rotated by the misalignment) and in memory
\* the value Rm held before the instruction, also when Rd = Rm or Rd = Rn;
\* its accesses are a non-sequential read, a sequential write, then one
\* internal cycle.
C23_Swap ==
    swapped =>
        /\ get_reg_i(arm7.regs, bits(arm7_last.instr, 12, 4))
            = IF arm7_last.handler.args[1]
              THEN <<0, bits(swap_word_before, swap_lane, 8)>>
              ELSE rotate_right(swap_word_before, swap_lane)
        /\ IF arm7_last.handler.args[1]
           THEN \A b \in 0..3 :
                  bits(swap_word_after, 8 * b, 8)
                    = IF 8 * b = swap_lane THEN bits(swap_source, 0, 8)
                      ELSE bits(swap_word_before, 8 * b, 8)
           ELSE swap_word_after = swap_source
        /\ \A a \in DOMAIN arm7_last.mem :
              a # align4(swap_base) => bus_mem[a] = arm7_last.mem[a]
        /\ Len(bus_log) = 4
        /\ bus_log[1].by = "prefetch"
        /\ bus_log[2] = Access("read", "data", swap_size, "N",
                               IF swap_size = 8 THEN swap_base ELSE align4(swap_base))
        /\ bus_log[3] = Access("write", "data", swap_size, "S",
                               IF swap_size = 8 THEN swap_base ELSE align4(swap_base))
        /\ bus_log[4].op = "internal"

\* A word swap ran whose destination is also its source register, on a
\* memory word that differs from the source.
C23_Witness ==
    /\ swapped
    /\ ~arm7_last.handler.args[1]
    /\ bits(arm7_last.instr, 12, 4) = bits(arm7_last.instr, 0, 4)
    /\ swap_word_before # swap_source
    /\ swap_word_after = swap_source

\* A swap ran whose destination is also its base register.
C23_DestinationIsBase ==
    /\ swapped
    /\ bits(arm7_last.instr, 12, 4) = bits(arm7_last.instr, 16, 4)
    /\ get_reg_i(arm7.regs, bits(arm7_last.instr, 12, 4)) # swap_base

\* The last step ran arm_software_interrupt.
interrupted ==
    /\ arm7_last.op = "step"
    /\ arm7_last.executed
    /\ arm7_last.handler.fn = "arm_software_interrupt"

\* After the software interrupt of the last step: supervisor mode, the
\* interrupt-disable flag set, the buffer refilled from the vector 0x8 and
\* pc = 0xC.
at_swi_vector ==
    /\ arm7_panic = "none"
    /\ get_mode(arm7.regs) = Mode.SVC
    /\ bit(arm7.regs.cpsr, 7)
    /\ arm7.instr_buffer[1] = Slot(mem_value(bus_mem, 32, <<0, 8>>), <<0, 8>>)
    /\ arm7.instr_buffer[2] = Slot(mem_value(bus_mem, 32, <<0, 12>>), <<0, 12>>)
    /\ arm7.regs.pc = <<0, 12>>

\* Register 14 as the mode that executed the last step sees it, after the
\* step.
r14_of_executing_mode == get_reg_i(set_mode(arm7.regs, get_mode(arm7_last.before)), 14)

\* C24: a software interrupt executed at address X in any mode leaves the
\* processor in supervisor mode with register 14 of the supervisor bank
\* equal to X + 4, the interrupt-disable flag set, register 14 of the mode
\* that executed the instruction unchanged, and the buffer refilled from
\* the vector 0x8 (the first slot holds the word at 0x8 and pc = 0xC).
C24_SoftwareInterrupt ==
    interrupted =>
        /\ at_swi_vector
        /\ arm7.regs.banked[Mode.SVC][14] = add32(arm7_last.from, <<0, 4>>)
        /\ r14_of_executing_mode = get_reg_i(arm7_last.before, 14)

\* The same for an instruction executed in a mode other than supervisor
\* mode: the link value is X + 4.
C24_FromOtherModes ==
    (interrupted /\ get_mode(arm7_last.before) # Mode.SVC) =>
        /\ at_swi_vector
        /\ arm7.regs.banked[Mode.SVC][14] = add32(arm7_last.from, <<0, 4>>)
        /\ r14_of_executing_mode = get_reg_i(arm7_last.before, 14)

\* What the handler does with the pc it finds: the link value is pc - 4,
\* in every mode, and register 14 of another mode is unchanged.
C24_FromPc ==
    interrupted =>
        /\ at_swi_vector
        /\ arm7.regs.banked[Mode.SVC][14] = sub32(arm7_last.pc, <<0, 4>>)
        /\ arm7.regs.spsr[Mode.SVC] = arm7_last.before.cpsr
        /\ get_mode(arm7_last.before) # Mode.SVC
            => r14_of_executing_mode = get_reg_i(arm7_last.before, 14)

\* The last step executed an instruction with a coprocessor encoding or
\* one whose key selects the undefined-instruction handler.
coprocessor_or_undefined ==
    /\ arm7_last.op = "step"
    /\ arm7_last.executed
    /\ \/ bits(arm7_last.instr, 25, 3) = 6
       \/ bits(arm7_last.instr, 24, 4) = 14
       \/ arm7_last.handler.fn = "undefined_instr_arm"

\* No step is taken once the processor has aborted.
no_step_after_abort == arm7_panic # "none" => arm7_steps' = arm7_steps

\* C25: a step whose instruction passes its condition and whose key
\* selects a coprocessor encoding (bits 27..25 = 110, or bits 27..24 =
\* 1110) or the undefined-instruction handler ends in a fatal abort: it
\* does not return normally and no later step runs.
C25_FatalAbort ==
    /\ [](coprocessor_or_undefined =>
            /\ arm7_last.handler.fn \in {"coprocessor", "undefined_instr_arm"}
            /\ arm7_panic # "none")
    /\ [][no_step_after_abort]_vars

\* A coprocessor data transfer (bits 27..25 = 110) passed its condition
\* and the processor aborted.
C25_Witness ==
    /\ coprocessor_or_undefined
    /\ bits(arm7_last.instr, 25, 3) = 6
    /\ arm7_panic = "Coprocessor not implemented!"

\* The last step ran a block store with write-back whose list holds the
\* base register.
block_store_of_base ==
    /\ block_transfer_done
    /\ ~arm7_last.handler.args[5]
    /\ arm7_last.handler.args[4]
    /\ bits(arm7_last.instr, bits(arm7_last.instr, 16, 4), 1) = 1

\* The position of the base register in the list of the last block
\* transfer, and the word the step left at the address of its transfer.
base_position ==
    CHOOSE k \in 1..Len(reg_list(arm7_last.instr)) :
        reg_list(arm7_last.instr)[k] = bits(arm7_last.instr, 16, 4)
stored_base == mem_word(bus_mem, block_addr(base_position))

\* C29: for a block store with the write-back bit set whose register list
\* contains the base register, the value stored for the base register is
\* its value before the instruction if and only if the base is the
\* lowest-numbered register of the list; otherwise it is the final
\* address, the base plus or minus 4n, that the write-back leaves.
C29_StoredBase ==
    block_store_of_base =>
        LET before == get_reg_i(arm7_last.before, bits(arm7_last.instr, 16, 4))
            n == Len(reg_list(arm7_last.instr))
            final == IF arm7_last.handler.args[2] THEN add32(before, <<0, 4 * n>>)
                                                  ELSE sub32(before, <<0, 4 * n>>)
        IN  /\ (stored_base = before) <=> (base_position = 1)
            /\ base_position # 1 => stored_base = final

\* C29, amended: the word stored for the base's number is the value that
\* the register of that number had before the instruction in the bank the
\* transfer ran in (the user bank with the force-user bit) when the base is
\* the lowest register of the list, and the final address, the executing
\* mode's base plus or minus 4n, otherwise; without a switch of bank it is
\* the base's old value if and only if the base is the lowest; the final
\* address is what the register holds in that bank after the instruction.
C29_StoredBaseInBank ==
    block_store_of_base =>
        LET base_reg == bits(arm7_last.instr, 16, 4)
            before == get_reg_i(arm7_last.before, base_reg)
            n == Len(reg_list(arm7_last.instr))
            final == IF arm7_last.handler.args[2] THEN add32(before, <<0, 4 * n>>)
                                                  ELSE sub32(before, <<0, 4 * n>>)
        IN  /\ base_position = 1
                => stored_base = get_reg_i(in_transfer_bank(arm7_last.before), base_reg)
            /\ base_position # 1 => stored_base = final
            /\ ~block_in_user_bank => ((stored_base = before) <=> (base_position = 1))
            /\ get_reg_i(in_transfer_bank(arm7.regs), base_reg) = final

\* A store with write-back and the force-user bit, of a list whose lowest
\* register is the base, ran in a mode that banks the base: the word
\* stored is the user bank's register, not the base the addresses were
\* computed from.
C29_WitnessUserBank ==
    /\ block_store_of_base
    /\ block_in_user_bank
    /\ base_position = 1
    /\ Len(reg_list(arm7_last.instr)) > 1
    /\ stored_base = get_reg_i(set_mode(arm7_last.before, Mode.USR),
                               bits(arm7_last.instr, 16, 4))
    /\ stored_base # get_reg_i(arm7_last.before, bits(arm7_last.instr, 16, 4))

\* A store with write-back of a list whose second register is the base
\* ran.
C29_Witness ==
    /\ block_store_of_base
    /\ base_position = 2
    /\ stored_base = get_reg_i(arm7.regs, bits(arm7_last.instr, 16, 4))

\* A store with write-back of a list whose lowest register is the base
\* ran.
C29_BaseFirst ==
    /\ block_store_of_base
    /\ base_position = 1
    /\ Len(reg_list(arm7_last.instr)) > 1
    /\ stored_base # get_reg_i(arm7.regs, bits(arm7_last.instr, 16, 4))

\* This step is a write of `value` to byte lane `lane` of the registers of
\* ARM9 timer num that did not panic.
lane_write_step(num, lane, value) ==
    /\ io_writes' = io_writes + 1
    /\ hw_panic' = "none"
    /\ \E w \in Timer_write(timers[1][num], 1, num, event_queue, cycle, lane, value) :
        /\ w.panic = "none"
        /\ timers' = [timers EXCEPT ![1][num] = w.timer]
        /\ event_queue' = w.queue

\* Every timer has at most one overflow event pending, and has one if and
\* only if it is started and not in count-up mode.
C27_PendingState ==
    hw_panic = "none" =>
        \A i \in 0..1 : \A num \in 0..(NUM_TIMERS - 1) :
            /\ Cardinality(pending(event_queue, i, num)) <= 1
            /\ pending(event_queue, i, num) # {}
                <=> (timers[i][num].cnt.start /\ ~timers[i][num].cnt.count_up)

\* A control write that stops the timer or switches it to count-up mode
\* leaves no event of the timer pending; a write to a reload byte or to the
\* upper control byte leaves the queue as it is.
C27_WriteStep ==
    \A addr \in TimerRegs : \A value \in IoBytes(addr) :
        lane_write_step(timer_index(addr), addr % 4, value) =>
            IF addr % 4 = 2
            THEN (~timers'[1][timer_index(addr)].cnt.start
                    \/ timers'[1][timer_index(addr)].cnt.count_up)
                 => pending(event_queue', 1, timer_index(addr)) = {}
            ELSE event_queue' = event_queue

\* C27: after any sequence of timer register writes (all four byte lanes),
\* reads, cycle advances and overflow firings, every timer has at most one
\* overflow event pending, and has one if and only if its start flag is
\* set and its count-up flag is clear; a control write that stops the
\* timer or switches it to count-up leaves no pending event, and writes to
\* the reload bytes or the upper control byte never add, remove or move an
\* event.
C27_OnePendingEvent == []C27_PendingState /\ [][C27_WriteStep]_vars

\* A timer that ran as a regular timer has been stopped or switched to
\* count-up mode and has no event, while another timer has one.
C27_Witness ==
    /\ hw_panic = "none"
    /\ \E num \in 0..(NUM_TIMERS - 1) :
        /\ timers[1][num].start_cycle > 0
        /\ ~timers[1][num].cnt.start \/ timers[1][num].cnt.count_up
        /\ pending(event_queue, 1, num) = {}
    /\ \E num \in 0..(NUM_TIMERS - 1) : pending(event_queue, 1, num) # {}

\* The started regular timers of the ARM9 whose counter the software can
\* read or whose control byte it can write now: no event is due.
readable_timers ==
    {num \in 0..(NUM_TIMERS - 1) :
        /\ hw_panic = "none"
        /\ ~events_due(event_queue, cycle)
        /\ timers[1][num].cnt.start
        /\ ~is_count_up(timers[1][num])}

\* The counter change calc_counter computes for timer t at `now`.
counter_change(t, now) ==
    IF now - t.start_cycle >= t.time_till_first_clock
    THEN 1 + (now - t.start_cycle - t.time_till_first_clock) \div prescaler_of(t)
    ELSE 0

\* C28: for every interleaving of timer register writes, counter reads,
\* cycle advances and overflow firings, a counter read or control write
\* of a started regular timer never trips an arithmetic fault in
\* calc_counter: the scheduler cycle is at least start_cycle, the counter
\* change is below 0x10000 and the counter plus the change is at most
\* 0xFFFF; the value read is not below the stored counter.
C28_NoArithmeticFault ==
    /\ hw_panic = "none"
    /\ \A num \in readable_timers :
        LET t == timers[1][num] IN
        /\ cycle >= t.start_cycle
        /\ counter_change(t, cycle) <= 65536
        /\ t.counter + counter_change(t, cycle) <= 65535
        /\ \A r \in calc_counter(t, cycle) : r.panic = "none" /\ r.value >= t.counter

\* A started regular timer can be read before its start cycle.
C28_ReadInStartLatency ==
    \E num \in readable_timers : cycle < timers[1][num].start_cycle

(***************************************************************************)
(* The ARM9 bus: claims.                                                   *)
(***************************************************************************)
\* The last access was made at an address classified as Unknown, or in the
\* shared-WRAM region while none of the shared WRAM is mapped to the ARM9.
unmapped_access ==
    /\ arm9_last.op \in {"read", "write"}
    /\ \/ from_addr(arm9_last.addr, arm9_last.before.cp15) = "Unknown"
       \/ /\ from_addr(arm9_last.addr, arm9_last.before.cp15) = "SharedWRAM"
          /\ arm9_last.before.wramcnt.arm9_mask = <<0, 0>>

\* C26: an ARM9 bus read of an address classified as Unknown, or of the
\* shared-WRAM region while no shared WRAM is mapped to the ARM9, returns
\* zero without aborting and without changing any state; the write is
\* ignored and leaves every memory and register unchanged.
C26_UnmappedAccess ==
    unmapped_access =>
        /\ arm9_panic = "none"
        /\ hw9 = arm9_last.before
        /\ arm9_last.op = "read" => arm9_last.value = <<0, 0>>

\* A write to the shared-WRAM region with nothing mapped, or to an unknown
\* address, was made after a write had filled a memory.
C26_Witness ==
    /\ unmapped_access
    /\ arm9_last.op = "write"
    /\ arm9_last.prev.op = "write"
    /\ hw9.main_mem # <<>>
    /\ hw9.shared_wram = <<>>

\* A read at an unknown address returned zero.
C26_UnknownRead ==
    /\ unmapped_access
    /\ arm9_last.op = "read"
    /\ from_addr(arm9_last.addr, hw9.cp15) = "Unknown"
    /\ hw9.main_mem # <<>>

\* The last access was a read of the shared WRAM mapped to the ARM9 that
\* followed a write of the same width at the same address.
read_after_write ==
    /\ arm9_last.op = "read"
    /\ arm9_last.prev.op = "write"
    /\ arm9_last.prev.addr = arm9_last.addr
    /\ arm9_last.prev.size = arm9_last.size
    /\ from_addr(arm9_last.addr, hw9.cp15) = "SharedWRAM"
    /\ hw9.wramcnt.arm9_mask # <<0, 0>>

\* C30: for every address of the shared-WRAM region and every WRAM
\* configuration with a non-zero arm9_mask, also one with a non-zero
\* arm9_offset, arm9_write followed by arm9_read of the same width at the
\* same address returns the written value.
C30_WriteThenRead ==
    read_after_write =>
        /\ arm9_panic = "none"
        /\ arm9_last.value
            = <<IF arm9_last.size = 32 THEN arm9_last.prev.value[1] ELSE 0,
                bits(arm9_last.prev.value, 0, IF arm9_last.size = 8 THEN 8 ELSE 16)>>

\* The same for the configurations with arm9_offset = 0.
C30_WriteThenReadAtOffsetZero ==
    (read_after_write /\ hw9.wramcnt.arm9_offset = <<0, 0>>) =>
        /\ arm9_panic = "none"
        /\ arm9_last.value
            = <<IF arm9_last.size = 32 THEN arm9_last.prev.value[1] ELSE 0,
                bits(arm9_last.prev.value, 0, IF arm9_last.size = 8 THEN 8 ELSE 16)>>

====
